---------------------------- MODULE Spec2Model ----------------------------
(***************************************************************************)
(* Model of the LAIK TCP2 point-to-point backend: the credit based slice   *)
(* transfer (send_slice / recv_slice / got_cmd / got_data / run_loop /     *)
(* tcp2_exec) and the bootstrap of laik_init_tcp2 (home election by        *)
(* bind/listen, registration, id broadcast, phase).                        *)
(***************************************************************************)
EXTENDS Integers, Sequences, FiniteSets, TLC

(***************************************************************************)
(* Bounds of the model                                                     *)
(***************************************************************************)
\* largest number of slice transfers in one transition
MaxTransfers == 3
\* number of data commands an interactive client may inject
MaxInject == 1

(***************************************************************************)
(* Program constants                                                       *)
(***************************************************************************)
\* element size in bytes of the container type (double)
ElemSize == 8

\* the ranks (location ids) of the processes of a transition
Procs == {0, 1, 2}
Dims == {1, 2, 3}

VARIABLES
  \* ---- slice transfer (tcp2_exec) ----
  trans,     \* the set of transfers of the transition (constant in a behaviour)
  prog,      \* prog[p]: action sequence handed to tcp2_exec at process p
  pc,        \* pc[p]: position of process p inside tcp2_exec
  ip,        \* ip[p]: index of the action being executed
  peer,      \* peer[p][q]: Peer struct kept at p for location id q
  exit,      \* exit[p]: d->exit
  chan,      \* chan[s][r]: commands written by s for r, not yet read by r
  toMem,     \* toMem[p][idx]: contents of the receive mapping of p
  failed,    \* failed[p]: the assertion that terminated p, or "none"
  warned,    \* warned[p]: number of "ignoring data ... without send permission"
  nsent,     \* nsent[s][r]: data commands s has emitted to r
  nrecv,     \* nrecv[r][s]: data commands r has accepted from s
  injected,  \* data commands injected by an interactive client so far
  \* ---- bootstrap (laik_init_tcp2) ----
  hostlen,   \* length of the name gethostname returns on the home host
  bpc,       \* bpc[p]: position of process p inside laik_init_tcp2
  inst,      \* inst[p]: InstData of process p
  fdlid,     \* fdlid[p]: d->fds[fd].lid at home for the connection from p
  world_size, \* world_size[p]: local world_size of laik_init_tcp2
  listener,  \* the process listening on the home port, 0 if none
  bound,     \* processes holding a socket bound to the home port, not listening
  toHome,    \* toHome[p]: commands written by p to home, not yet read
  fromHome,  \* fromHome[p]: commands written by home to p, not yet read
  bfailed,   \* bfailed[p]: the assertion/exit that terminated p, or "none"
  regs,      \* processes in the order home registered them
  idlog,     \* idlog[p]: location ids of the id lines home has sent to p
  \* ---- mpi ----
  msend,  \* msend[p]: send list of the transition at task p
  mrecv,  \* mrecv[p]: receive list of the transition at task p
  mip,  \* mip[p]: number of blocking operations task p has completed
  mpc,  \* mpc[p]: position of task p inside laik_mpi_exec
  mgot, \* mgot[p]: messages received by task p: <<sender, slice sent, slice expected>>
  \* ---- red ----
  rgrp,  \* the reduction: input group, output group (task lists) and operation
  ralias,  \* ralias[p]: toBase of task p is its fromBase (same mapping)
  rbuf,  \* rbuf[p]: contents of the input (from) and output (to) buffer of task p
  rpc,  \* rpc[p]: position of task p inside the reduction
  rptr,  \* ptr[] of the reducing task: own input buffer or a received copy
  rchan,  \* rchan[p]: input values sent by p, not yet received by the reducing task
  rres,  \* rres[p]: result sent to p, not yet received
  rfailed, \* rfailed[p]: the assertion that terminated p, or "none"
  \* ---- cont ----
  cd,  \* the container: d->activePartitioning, d->activeMapping (0 is the null pointer)
  cparts,  \* cparts[i]: partitioning i: own border, access behaviour, freed or not
  cmaps,  \* cmaps[i]: mapping i: baseIdx, count, memory, number of times freed
  ccall,  \* the call of laik_set_partitioning in progress or last completed
  ccalls,  \* number of calls of laik_set_partitioning started
  cuaf,  \* a freed mapping or partitioning has been read or written
  coob, \* a write has fallen outside the memory of its mapping
  \* ---- frame ----
  fstream,  \* the bytes the peer writes to the connection
  fpos,  \* number of bytes of the stream read so far
  frbuf,  \* d->fds[fd].rbuf
  fused,  \* d->fds[fd].rbuf_used
  fcmds, \* the messages passed to got_cmd, in order
  fstate, \* the descriptor: open, removed by quit, closed, or the process ended
  fnote, \* what process_rbuf did after rm_rfd freed the buffer
  \* ---- conn ----
  kd,  \* InstData of the process: mylid, maxid, peers, phase, exit, and whether it has exited
  kpeer,  \* d->peer[lid]: fd, known (location, host, port set), rcount, scount
  kfds,  \* d->fds[fd]: cb set (descriptor in the event loop), lid
  kopen,  \* descriptors open in the process
  kbad,  \* a command was written to a closed descriptor
  kdropped,  \* peers whose connection was closed by the other side and not opened again
  klast,  \* the last event handled: its kind, descriptor, sender lid and command
  kn,  \* number of events handled
  kpc,  \* where the process is in run_loop: none, select, round, returned
  kready,  \* descriptors select reported ready that the round has not handled yet
  kint, \* descriptor of the first event since run_loop was called that ends the loop, or -1
  \* ---- ucp ----
  uinst,  \* UCP backend: InstData of every process (mylid, world_size, peer, ...)
  ufds,  \* home: fds[lid], the process behind each accepted connection
  ubacklog,  \* home: connections waiting on the listening socket
  uto,  \* bytes written by home to each process, not yet read
  ufrom,  \* bytes written by each process to home, not yet read
  uleft, \* LIDs that left the instance
  \* ---- life ----
  ld,  \* MPI backend: MPIData of the process and the calls of MPI_Finalize
  lgroups,  \* MPI backend: the groups of the process (parent, size, myid, backend_data)
  lcalls,  \* MPI calls made by the last laik_mpi_exec
  lfail,  \* the assertion or MPI rule the process broke, or "none"
  llast,  \* the last backend operation and its arguments
  ln, \* number of backend operations so far
  \* ---- plan ----
  tplan,  \* the transition plan: bufCount, bufAllocCount, and buf (<<>> is the null pointer, an entry 0 a null buffer)
  tfail,  \* the panic that ended the process, or "none"
  tlast,  \* the last call of laik_transplan_appendBuf: size, outcome of the allocations, value returned
  tn  \* number of calls made

xvars == <<trans, prog, pc, ip, peer, exit, chan, toMem,
           failed, warned, nsent, nrecv, injected>>

bvars == <<hostlen, bpc, inst, fdlid, world_size, listener, bound,
           toHome, fromHome, bfailed, regs, idlog>>

mvars == <<msend, mrecv, mip, mpc, mgot>>

rvars == <<rgrp, ralias, rbuf, rpc, rptr, rchan, rres, rfailed>>

cvars == <<cd, cparts, cmaps, ccall, ccalls, cuaf, coob>>

fvars == <<fstream, fpos, frbuf, fused, fcmds, fstate, fnote>>

kvars == <<kd, kpeer, kfds, kopen, kbad, kdropped, klast, kn, kpc, kready, kint>>

uvars == <<uinst, ufds, ubacklog, uto, ufrom, uleft>>

lvars == <<ld, lgroups, lcalls, lfail, llast, ln>>

tvars == <<tplan, tfail, tlast, tn>>

vars == <<xvars, bvars, mvars, rvars, cvars, fvars, kvars, uvars, lvars, tvars>>

\* no process has entered laik_init_tcp2
BootIdle ==
  /\ hostlen = 0
  /\ bpc = <<>>
  /\ inst = <<>>
  /\ fdlid = <<>>
  /\ world_size = <<>>
  /\ listener = 0
  /\ bound = {}
  /\ toHome = <<>>
  /\ fromHome = <<>>
  /\ bfailed = <<>>
  /\ regs = <<>>
  /\ idlog = <<>>

\* no transition is executed during bootstrap
XferIdle ==
  /\ trans = {}
  /\ prog = <<>>
  /\ pc = <<>>
  /\ ip = <<>>
  /\ peer = <<>>
  /\ exit = <<>>
  /\ chan = <<>>
  /\ toMem = <<>>
  /\ failed = <<>>
  /\ warned = <<>>
  /\ nsent = <<>>
  /\ nrecv = <<>>
  /\ injected = 0

MpiIdle ==
  /\ msend = <<>>
  /\ mrecv = <<>>
  /\ mip = <<>>
  /\ mpc = <<>>
  /\ mgot = <<>>

RedIdle ==
  /\ rgrp = <<>>
  /\ ralias = <<>>
  /\ rbuf = <<>>
  /\ rpc = <<>>
  /\ rptr = <<>>
  /\ rchan = <<>>
  /\ rres = <<>>
  /\ rfailed = <<>>

ContIdle ==
  /\ cd = <<>>
  /\ cparts = <<>>
  /\ cmaps = <<>>
  /\ ccall = <<>>
  /\ ccalls = 0
  /\ cuaf = FALSE
  /\ coob = FALSE

FrameIdle ==
  /\ fstream = <<>>
  /\ fpos = 0
  /\ frbuf = <<>>
  /\ fused = 0
  /\ fcmds = <<>>
  /\ fstate = "none"
  /\ fnote = <<>>

ConnIdle ==
  /\ kd = <<>>
  /\ kpeer = <<>>
  /\ kfds = <<>>
  /\ kopen = {}
  /\ kbad = FALSE
  /\ kdropped = {}
  /\ klast = <<>>
  /\ kn = 0
  /\ kpc = "none"
  /\ kready = {}
  /\ kint = -1

UcpIdle ==
  /\ uinst = <<>>
  /\ ufds = <<>>
  /\ ubacklog = <<>>
  /\ uto = <<>>
  /\ ufrom = <<>>
  /\ uleft = {}

LifeIdle ==
  /\ ld = <<>>
  /\ lgroups = <<>>
  /\ lcalls = <<>>
  /\ lfail = "none"
  /\ llast = <<>>
  /\ ln = 0

PlanIdle ==
  /\ tplan = <<>>
  /\ tfail = "none"
  /\ tlast = <<>>
  /\ tn = 0

\* every part of the program except part g is in its idle state
Idle(g) ==
  /\ IF g = "xfer" THEN TRUE ELSE XferIdle
  /\ IF g = "boot" THEN TRUE ELSE BootIdle
  /\ IF g = "mpi" THEN TRUE ELSE MpiIdle
  /\ IF g = "red" THEN TRUE ELSE RedIdle
  /\ IF g = "cont" THEN TRUE ELSE ContIdle
  /\ IF g = "frame" THEN TRUE ELSE FrameIdle
  /\ IF g = "conn" THEN TRUE ELSE ConnIdle
  /\ IF g = "ucp" THEN TRUE ELSE UcpIdle
  /\ IF g = "life" THEN TRUE ELSE LifeIdle
  /\ IF g = "plan" THEN TRUE ELSE PlanIdle

\* a step of part g leaves the state of every other part alone
Frame(g) ==
  /\ IF g = "xfer" THEN TRUE ELSE UNCHANGED xvars
  /\ IF g = "boot" THEN TRUE ELSE UNCHANGED bvars
  /\ IF g = "mpi" THEN TRUE ELSE UNCHANGED mvars
  /\ IF g = "red" THEN TRUE ELSE UNCHANGED rvars
  /\ IF g = "cont" THEN TRUE ELSE UNCHANGED cvars
  /\ IF g = "frame" THEN TRUE ELSE UNCHANGED fvars
  /\ IF g = "conn" THEN TRUE ELSE UNCHANGED kvars
  /\ IF g = "ucp" THEN TRUE ELSE UNCHANGED uvars
  /\ IF g = "life" THEN TRUE ELSE UNCHANGED lvars
  /\ IF g = "plan" THEN TRUE ELSE UNCHANGED tvars

(***************************************************************************)
(* Slices and index traversal                                              *)
(***************************************************************************)
Min(a, b) == IF a < b THEN a ELSE b

\* a block of a d-dimensional space: [1,3) on the first and the last axis
SlcA(d) == [dims |-> d,
            from |-> [k \in 1 .. d |-> 1],
            to   |-> [k \in 1 .. d |-> IF k = 1 \/ k = d THEN 3 ELSE 2]]

\* a line along the last axis starting at the origin
SlcB(d) == [dims |-> d,
            from |-> [k \in 1 .. d |-> 0],
            to   |-> [k \in 1 .. d |-> IF k = d THEN 2 ELSE 1]]

SliceSet(d) == {SlcA(d), SlcB(d)}

\* the index values of the spaces of the model
Coord == 0 .. 3

RECURSIVE ProdExt(_, _)
ProdExt(slc, k) ==
  IF k = 0 THEN 1 ELSE (slc.to[k] - slc.from[k]) * ProdExt(slc, k - 1)

\* number of indexes in a slice
laik_slice_size(slc) == ProdExt(slc, slc.dims)

\* all indexes of a slice
SliceIdx(slc) ==
  {i \in [1 .. slc.dims -> Coord] :
     \A k \in 1 .. slc.dims : slc.from[k] <= i[k] /\ i[k] < slc.to[k]}

\* variant: the lower axes are not reset to slc.from when an axis wraps
next_lex_noreset(slc, idx) ==
  LET i1 == [idx EXCEPT ![1] = idx[1] + 1] IN
  IF i1[1] < slc.to[1] THEN <<TRUE, i1>>
  ELSE IF slc.dims = 1 THEN <<FALSE, i1>>
  ELSE LET i2 == [i1 EXCEPT ![2] = i1[2] + 1] IN
    IF i2[2] < slc.to[2] THEN <<TRUE, i2>>
    ELSE IF slc.dims = 2 THEN <<FALSE, i2>>
    ELSE LET i3 == [i2 EXCEPT ![3] = i2[3] + 1] IN
      IF i3[3] < slc.to[3] THEN <<TRUE, i3>> ELSE <<FALSE, i3>>

\* next_lex: <<inTraversal, idx'>>; axis 1 of the model is i[0] of the code
next_lex(slc, idx) ==
  LET i1 == [idx EXCEPT ![1] = idx[1] + 1] IN
  IF i1[1] < slc.to[1] THEN <<TRUE, i1>>
  ELSE IF slc.dims = 1 THEN <<FALSE, i1>>
  ELSE
    LET i2 == [i1 EXCEPT ![2] = i1[2] + 1, ![1] = slc.from[1]] IN
    IF i2[2] < slc.to[2] THEN <<TRUE, i2>>
    ELSE IF slc.dims = 2 THEN <<FALSE, i2>>
    ELSE
      LET i3 == [i2 EXCEPT ![3] = i2[3] + 1, ![2] = slc.from[2]] IN
      IF i3[3] < slc.to[3] THEN <<TRUE, i3>> ELSE <<FALSE, i3>>


(***************************************************************************)
(* Transitions and action sequences                                        *)
(***************************************************************************)
NoSlice == [dims |-> 0, from |-> <<>>, to |-> <<>>]

\* every transfer a transition over a d-dimensional space may hold
AllTransfers(d) ==
  {[from |-> s, to |-> r, slc |-> c] :
     s \in Procs, r \in Procs, c \in SliceSet(d)} \
  {t \in [from : Procs, to : Procs, slc : SliceSet(d)] : t.from = t.to}

\* the transitions of the model: up to MaxTransfers transfers; a pair of
\* processes that moves the line also moves the block
Transitions(d) ==
  {T \in SUBSET AllTransfers(d) :
     /\ Cardinality(T) >= 1
     /\ Cardinality(T) <= MaxTransfers
     /\ \A t \in T : t.slc = SlcB(d) => [t EXCEPT !.slc = SlcA(d)] \in T}

\* the send and receive actions of process p in transition T
ActionsOf(p, T) ==
  {[type |-> "send", peer |-> t.to, slc |-> t.slc] : t \in {u \in T : u.from = p}}
  \cup
  {[type |-> "recv", peer |-> t.from, slc |-> t.slc] : t \in {u \in T : u.to = p}}

RECURSIVE LexLess(_, _, _)
\* index a before index b, comparing the highest axis first
LexLess(a, b, k) ==
  IF k = 0 THEN FALSE
  ELSE IF a[k] # b[k] THEN a[k] < b[k]
  ELSE LexLess(a, b, k - 1)

\* phase of an action: 1 moves data from a lower to a higher rank
PhaseOf(myid, a) ==
  IF (a.type = "send" /\ a.peer > myid) \/ (a.type = "recv" /\ a.peer < myid)
  THEN 1 ELSE 2

\* order of two actions of process myid after sorting
Before2Phases(myid, a, b) ==
  IF PhaseOf(myid, a) # PhaseOf(myid, b) THEN PhaseOf(myid, a) < PhaseOf(myid, b)
  ELSE IF a.peer # b.peer THEN a.peer < b.peer
  ELSE LexLess(a.slc.from, b.slc.from, a.slc.dims)

\* laik_aseq_sort_2phases: first the transfers from lower to higher ranks
\* (receive from lower, send to higher), then those from higher to lower,
\* each phase by peer rank, transfers with the same peer by slice border
laik_aseq_sort_2phases(myid, as) ==
  LET Less(a, b) == Before2Phases(myid, a, b) IN SortSeq(as, Less)

(***************************************************************************)
(* State after bootstrap, before tcp2_exec                                 *)
(***************************************************************************)
InitPeer == [rcount |-> 0, roff |-> 0, relemsize |-> 0, rslc |-> NoSlice,
             ridx |-> <<>>, rro |-> "None", scount |-> 0, selemsize |-> 0]

\* element of the send mapping of process p at index idx
FromVal(p, idx) == <<p, idx>>

AllIdx(d) == [1 .. d -> Coord]

\* the sends (or the receives) of a set of actions, by peer rank and slice
RECURSIVE ListOf(_)
ListOf(S) ==
  IF S = {} THEN <<>>
  ELSE LET a == CHOOSE x \in S : \A y \in S \ {x} :
                   x.peer < y.peer
                   \/ (x.peer = y.peer /\ LexLess(x.slc.from, y.slc.from, x.slc.dims))
       IN <<a>> \o ListOf(S \ {a})

\* the action sequence built from the transition's send and receive lists:
\* either list may come first
SeqOf(p, T, first) ==
  LET snd == ListOf({a \in ActionsOf(p, T) : a.type = "send"})
      rcv == ListOf({a \in ActionsOf(p, T) : a.type = "recv"})
  IN IF first = "send" THEN snd \o rcv ELSE rcv \o snd

InitXfer ==
  \E d \in Dims :
    /\ trans \in Transitions(d)
    /\ \E first \in {"send", "recv"} :
         prog = [p \in Procs |-> SeqOf(p, trans, first)]
    /\ toMem = [p \in Procs |-> [i \in AllIdx(d) |-> <<>>]]
    /\ pc = [p \in Procs |-> "start"]
    /\ ip = [p \in Procs |-> 0]
    /\ peer = [p \in Procs |-> [q \in Procs |-> InitPeer]]
    /\ exit = [p \in Procs |-> 0]
    /\ chan = [s \in Procs |-> [r \in Procs |-> <<>>]]
    /\ failed = [p \in Procs |-> "none"]
    /\ warned = [p \in Procs |-> 0]
    /\ nsent = [s \in Procs |-> [r \in Procs |-> 0]]
    /\ nrecv = [r \in Procs |-> [s \in Procs |-> 0]]
    /\ injected = 0
    /\ Idle("xfer")

(***************************************************************************)
(* send_cmd, assertion failure                                             *)
(***************************************************************************)
\* send_cmd: the command is written to the connection to lid
send_cmd(c, from, lid, msg) == [c EXCEPT ![from][lid] = Append(@, msg)]

InLoop(p) == pc[p] \in {"send_loop", "recv_loop"}

CurAction(p) == prog[p][ip[p]]

(***************************************************************************)
(* got_data: a data command from lid arrived at p                          *)
(***************************************************************************)
\* variant: got_data without the credit check
HasCreditAlways(pr) == TRUE

\* the receiver holds credit for the peer
HasCredit(pr) == ~((pr.rcount = 0) \/ (pr.rcount = pr.roff))

\* the position tag of a data command agrees with the receiver's position
TagOk(pr, msg) == msg.tag = <<>> \/ msg.tag = <<pr.roff, pr.ridx>>

got_data(p, lid, msg) ==
  LET pr == peer[p][lid]
      nl == next_lex(pr.rslc, pr.ridx)
      inTraversal == nl[1]
  IN
  IF ~HasCredit(pr) THEN
       \* warning, command ignored
       /\ warned' = [warned EXCEPT ![p] = @ + 1]
       /\ UNCHANGED <<peer, toMem, exit, failed, pc, nrecv>>
  ELSE IF pr.relemsize # msg.len \/ ~TagOk(pr, msg) THEN
       /\ failed' = [failed EXCEPT ![p] = "got_data"]
       /\ pc' = [pc EXCEPT ![p] = "abort"]
       /\ UNCHANGED <<peer, toMem, exit, warned, nrecv>>
  ELSE IF inTraversal # (pr.roff + 1 < pr.rcount) THEN
       /\ failed' = [failed EXCEPT ![p] = "inTraversal"]
       /\ pc' = [pc EXCEPT ![p] = "abort"]
       /\ toMem' = [toMem EXCEPT ![p][pr.ridx] = msg.val]
       /\ peer' = [peer EXCEPT ![p][lid].roff = @ + 1, ![p][lid].ridx = nl[2]]
       /\ nrecv' = [nrecv EXCEPT ![p][lid] = @ + 1]
       /\ UNCHANGED <<exit, warned>>
  ELSE
       /\ toMem' = [toMem EXCEPT ![p][pr.ridx] = msg.val]
       /\ peer' = [peer EXCEPT ![p][lid].roff = @ + 1, ![p][lid].ridx = nl[2]]
       /\ nrecv' = [nrecv EXCEPT ![p][lid] = @ + 1]
       /\ exit' = [exit EXCEPT ![p] = IF pr.roff + 1 = pr.rcount THEN 1 ELSE @]
       /\ UNCHANGED <<failed, pc, warned>>

(***************************************************************************)
(* got_cmd: allowsend and data                                             *)
(***************************************************************************)
\* variant: the grant is recorded only while send_slice waits for this peer
got_allowsend_waiting(p, lid, msg) ==
  IF pc[p] = "send_loop" /\ CurAction(p).peer = lid THEN
       /\ peer' = [peer EXCEPT ![p][lid].scount = msg.count,
                               ![p][lid].selemsize = msg.esize]
       /\ exit' = [exit EXCEPT ![p] = 1]
       /\ UNCHANGED <<failed, pc>>
  ELSE UNCHANGED <<peer, exit, failed, pc>>

got_allowsend(p, lid, msg) ==
  IF peer[p][lid].scount # 0 THEN
       /\ failed' = [failed EXCEPT ![p] = "allowsend"]
       /\ pc' = [pc EXCEPT ![p] = "abort"]
       /\ UNCHANGED <<peer, exit>>
  ELSE
       /\ peer' = [peer EXCEPT ![p][lid].scount = msg.count,
                               ![p][lid].selemsize = msg.esize]
       /\ exit' = [exit EXCEPT ![p] = 1]
       /\ UNCHANGED <<failed, pc>>

\* run_loop of p reads the next command of the connection from lid
GotCmd(p, lid) ==
  /\ Frame("xfer")
  /\ InLoop(p)
  /\ chan[lid][p] # <<>>
  /\ LET msg == Head(chan[lid][p]) IN
       /\ chan' = [chan EXCEPT ![lid][p] = Tail(@)]
       /\ IF msg.type = "allowsend"
          THEN got_allowsend(p, lid, msg) /\ UNCHANGED <<toMem, warned, nrecv>>
          ELSE got_data(p, lid, msg)
  /\ UNCHANGED <<trans, prog, ip, nsent, injected>>

(***************************************************************************)
(* send_slice                                                              *)
(***************************************************************************)
\* send_data: the data command for element number n at index idx
send_data_untagged(p, n, idx) ==
  [type |-> "data", len |-> ElemSize, tag |-> <<0, idx>>, val |-> FromVal(p, idx)]

send_data(p, n, idx) ==
  [type |-> "data", len |-> ElemSize, tag |-> <<n, idx>>, val |-> FromVal(p, idx)]

RECURSIVE SendTraversal(_, _, _, _)
\* lines 1144-1152: the data commands of the traversal that starts at idx
\* with ecount = n
SendTraversal(p, slc, idx, n) ==
  LET nl == next_lex(slc, idx) IN
  <<send_data(p, n, idx)>> \o
    (IF nl[1] THEN SendTraversal(p, slc, nl[2], n + 1) ELSE <<>>)

\* variant: send_slice never waits for the grant
MustWaitNever(pr) == FALSE

\* line 1136: send_slice has to wait for the right to send
MustWait(pr) == pr.scount = 0

\* variant: send_slice returns without clearing the grant
WithdrawGrantKeep(pr) == pr

\* line 1156: withdraw our right to send further data
WithdrawGrant(pr) == [pr EXCEPT !.scount = 0]

\* lines 1141-1156: asserts on the grant, the traversal, assert on ecount,
\* withdrawal of the right to send; then tcp2_exec goes to its next action
SendRun(p, lid, slc) ==
  LET pr == peer[p][lid]
      cmds == SendTraversal(p, slc, slc.from, 0) IN
  IF pr.scount # laik_slice_size(slc) \/ pr.selemsize # ElemSize THEN
       /\ failed' = [failed EXCEPT ![p] = "send_slice"]
       /\ pc' = [pc EXCEPT ![p] = "abort"]
       /\ UNCHANGED <<chan, nsent, peer, ip>>
  ELSE
       /\ chan' = [chan EXCEPT ![p][lid] = @ \o cmds]
       /\ nsent' = [nsent EXCEPT ![p][lid] = @ + Len(cmds)]
       /\ IF Len(cmds) # laik_slice_size(slc)
          THEN /\ failed' = [failed EXCEPT ![p] = "ecount"]
               /\ pc' = [pc EXCEPT ![p] = "abort"]
               /\ UNCHANGED <<peer, ip>>
          ELSE /\ peer' = [peer EXCEPT ![p][lid] = WithdrawGrant(@)]
               /\ ip' = [ip EXCEPT ![p] = @ + 1]
               /\ pc' = [pc EXCEPT ![p] = "next"]
               /\ UNCHANGED failed

\* tcp2_exec reaches a MapPackAndSend action and calls send_slice
SendSliceEnter(p) ==
  /\ Frame("xfer")
  /\ pc[p] = "next"
  /\ ip[p] <= Len(prog[p])
  /\ CurAction(p).type = "send"
  /\ LET a == CurAction(p) IN
       IF MustWait(peer[p][a.peer]) THEN
            \* wait for the right to send: run_loop
            /\ pc' = [pc EXCEPT ![p] = "send_loop"]
            /\ exit' = [exit EXCEPT ![p] = 0]
            /\ UNCHANGED <<failed, chan, nsent, peer, ip>>
       ELSE SendRun(p, a.peer, a.slc) /\ UNCHANGED exit
  /\ UNCHANGED <<trans, prog, toMem, warned, nrecv, injected>>

(***************************************************************************)
(* recv_slice                                                              *)
(***************************************************************************)
\* lines 1171-1179: write outstanding receive info into the peer structure
PostRecv(pr, slc) ==
  [pr EXCEPT !.rcount = laik_slice_size(slc), !.roff = 0, !.relemsize = ElemSize,
             !.rslc = slc, !.ridx = slc.from, !.rro = "None"]

\* variant: recv_slice posts the receive but sends no allowsend
GrantSendNone(c, p, lid, pr) == c

\* lines 1182-1184: give the peer the right to send
GrantSend(c, p, lid, pr) ==
  send_cmd(c, p, lid, [type |-> "allowsend", count |-> pr.rcount,
                       esize |-> pr.relemsize])

\* variant: recv_slice returns one element early
RecvPendingShort(pr) == pr.roff + 1 < pr.rcount

\* line 1187: recv_slice still waits for data
RecvPending(pr) == pr.roff < pr.rcount

\* line 1191: receive done
ClearRecv(pr) == [pr EXCEPT !.rcount = 0]

\* tcp2_exec reaches a MapRecvAndUnpack action and calls recv_slice
RecvSliceEnter(p) ==
  /\ Frame("xfer")
  /\ pc[p] = "next"
  /\ ip[p] <= Len(prog[p])
  /\ CurAction(p).type = "recv"
  /\ LET a == CurAction(p)
         pr == peer[p][a.peer]
         n == laik_slice_size(a.slc) IN
       IF pr.rcount # 0 \/ n <= 0 THEN
            /\ failed' = [failed EXCEPT ![p] = "recv_slice"]
            /\ pc' = [pc EXCEPT ![p] = "abort"]
            /\ UNCHANGED <<peer, chan, exit>>
       ELSE
            /\ peer' = [peer EXCEPT ![p][a.peer] = PostRecv(@, a.slc)]
            /\ chan' = GrantSend(chan, p, a.peer, PostRecv(pr, a.slc))
            /\ pc' = [pc EXCEPT ![p] = "recv_loop"]
            /\ exit' = [exit EXCEPT ![p] = 0]
            /\ UNCHANGED failed
  /\ UNCHANGED <<trans, prog, ip, toMem, warned, nsent, nrecv, injected>>

(***************************************************************************)
(* run_loop returns to its caller, which tests its loop condition          *)
(***************************************************************************)
LoopReturn(p) ==
  /\ Frame("xfer")
  /\ InLoop(p)
  /\ exit[p] = 1
  /\ LET a == CurAction(p)
         pr == peer[p][a.peer] IN
       IF pc[p] = "send_loop" THEN
            IF MustWait(pr)
            THEN /\ exit' = [exit EXCEPT ![p] = 0]
                 /\ UNCHANGED <<pc, failed, peer, ip, chan, nsent>>
            ELSE /\ SendRun(p, a.peer, a.slc)
                 /\ UNCHANGED exit
       ELSE
            IF RecvPending(pr)
            THEN /\ exit' = [exit EXCEPT ![p] = 0]
                 /\ UNCHANGED <<pc, failed, peer, ip, chan, nsent>>
            ELSE /\ peer' = [peer EXCEPT ![p][a.peer] = ClearRecv(@)]
                 /\ ip' = [ip EXCEPT ![p] = @ + 1]
                 /\ pc' = [pc EXCEPT ![p] = "next"]
                 /\ UNCHANGED <<exit, failed, chan, nsent>>
  /\ UNCHANGED <<trans, prog, toMem, warned, nrecv, injected>>

(***************************************************************************)
(* tcp2_exec                                                               *)
(***************************************************************************)
\* entry: nothing to do for an empty sequence, else sort and start the loop
Tcp2ExecStart(p) ==
  /\ Frame("xfer")
  /\ pc[p] = "start"
  /\ IF Len(prog[p]) = 0
     THEN /\ pc' = [pc EXCEPT ![p] = "returned"]
          /\ UNCHANGED <<prog, ip>>
     ELSE /\ prog' = [prog EXCEPT ![p] = laik_aseq_sort_2phases(p, @)]
          /\ ip' = [ip EXCEPT ![p] = 1]
          /\ pc' = [pc EXCEPT ![p] = "next"]
  /\ UNCHANGED <<trans, peer, exit, chan, toMem, failed, warned,
                 nsent, nrecv, injected>>

\* the action loop is through
Tcp2ExecReturn(p) ==
  /\ Frame("xfer")
  /\ pc[p] = "next"
  /\ ip[p] > Len(prog[p])
  /\ pc' = [pc EXCEPT ![p] = "returned"]
  /\ UNCHANGED <<trans, prog, ip, peer, exit, chan, toMem, failed,
                 warned, nsent, nrecv, injected>>

\* the steps of process p
ProcNext(p) ==
  \/ Tcp2ExecStart(p)
  \/ SendSliceEnter(p)
  \/ RecvSliceEnter(p)
  \/ \E q \in Procs \ {p} : GotCmd(p, q)
  \/ LoopReturn(p)
  \/ Tcp2ExecReturn(p)

NextXfer == \E p \in Procs : ProcNext(p)

SpecXfer == InitXfer /\ [][NextXfer]_vars

\* every process is an operating system process of its own and keeps running
FairSpecXfer == SpecXfer /\ \A p \in Procs : WF_vars(ProcNext(p))

(***************************************************************************)
(* An interactive client (nc/telnet) whose descriptor carries location id  *)
(* lid types a data command while p runs its event loop                    *)
(***************************************************************************)
InjectData(p, lid) ==
  /\ Frame("xfer")
  /\ injected < MaxInject
  /\ InLoop(p)
  /\ injected' = injected + 1
  /\ got_data(p, lid, [type |-> "data", len |-> ElemSize, tag |-> <<>>,
                       val |-> <<-1, <<>>>>])
  /\ UNCHANGED <<trans, prog, ip, chan, nsent>>

NextInject ==
  \/ NextXfer
  \/ \E p \in Procs : \E lid \in Procs \ {p} : InjectData(p, lid)

SpecInject == InitXfer /\ [][NextInject]_vars

(***************************************************************************)
(* Properties of the credit protocol                                       *)
(***************************************************************************)
AllReturned == \A p \in Procs : pc[p] = "returned"

NumOf(q, ty) == Cardinality({i \in 1 .. Len(q) : q[i].type = ty})

RECURSIVE SumSizes(_)
SumSizes(T) ==
  IF T = {} THEN 0
  ELSE LET t == CHOOSE x \in T : TRUE IN laik_slice_size(t.slc) + SumSizes(T \ {t})

\* number of elements the transition moves from s to r
Moved(s, r) == SumSizes({t \in trans : t.from = s /\ t.to = r})

\* C1: for every ordered pair (sender s, receiver r) at most one send grant
\* is outstanding: neither the assert of recv_slice (rcount = 0 before a new
\* grant) nor the assert of the allowsend handler (scount = 0) ever fails, at
\* most one allowsend is in flight from r to s and it belongs to the receive
\* r is blocked in, a grant held by s is the one r waits for, and outside
\* recv_slice / after tcp2_exec both fields are 0 again.
OneGrantOutstanding ==
  /\ \A p \in Procs : failed[p] \notin {"recv_slice", "allowsend"}
  /\ \A s \in Procs : \A r \in Procs \ {s} :
       /\ NumOf(chan[r][s], "allowsend") + (IF peer[s][r].scount # 0 THEN 1 ELSE 0) <= 1
       /\ (NumOf(chan[r][s], "allowsend") = 1 \/ peer[s][r].scount # 0)
            => /\ pc[r] = "recv_loop"
               /\ CurAction(r).peer = s
               /\ peer[r][s].rcount > 0
               /\ peer[r][s].roff = 0
       /\ peer[s][r].scount # 0 => peer[s][r].scount = peer[r][s].rcount
       /\ pc[r] # "recv_loop" => peer[r][s].rcount = 0
  /\ AllReturned =>
       \A s \in Procs : \A r \in Procs :
         peer[s][r].scount = 0 /\ peer[s][r].rcount = 0

\* a sender holds a new grant of a receiver it has already served once
WitnessOneGrant ==
  \E s \in Procs : \E r \in Procs \ {s} :
    nsent[s][r] > 0 /\ nrecv[r][s] = nsent[s][r] /\ peer[s][r].scount # 0

\* number of elements the receiver still accepts from the peer
Credit(pr) == IF HasCredit(pr) THEN pr.rcount - pr.roff ELSE 0

\* every data command in flight is covered by credit the receiver holds
CoveredByCredit ==
  /\ \A p \in Procs : failed[p] # "send_slice"
  /\ \A s \in Procs : \A r \in Procs \ {s} :
       NumOf(chan[s][r], "data") <= Credit(peer[r][s])

\* a step that emits data to r starts with a grant of r; a blocked send_slice
\* emits nothing and leaves its loop only with the grant, emitting then
EmitOnlyWithGrant ==
  \A s \in Procs :
    /\ \A r \in Procs \ {s} :
         nsent'[s][r] # nsent[s][r] =>
           /\ peer[s][r].scount # 0
           /\ nsent'[s][r] = nsent[s][r] + peer[s][r].scount
    /\ (pc[s] = "send_loop" /\ peer[s][CurAction(s).peer].scount = 0) =>
         /\ pc'[s] = "send_loop"
         /\ nsent'[s] = nsent[s]
    /\ (pc[s] = "send_loop" /\ pc'[s] # "send_loop") =>
         nsent'[s][CurAction(s).peer] > nsent[s][CurAction(s).peer]

\* C2: a sender never emits a data command to r before it has processed r's
\* allowsend for that transfer: send_slice entered with scount = 0 stays in
\* the event loop emitting nothing until the grant is there, then emits.
CreditBeforeData == []CoveredByCredit /\ [][EmitOnlyWithGrant]_vars

\* a sender blocked in send_slice has just got the grant it waits for
WitnessCreditBeforeData ==
  \E s \in Procs :
    /\ pc[s] = "send_loop"
    /\ exit[s] = 1
    /\ peer[s][CurAction(s).peer].scount # 0
    /\ nsent[s][CurAction(s).peer] = 0

AcceptOnlyWithCredit ==
  \A p \in Procs :
    /\ \A lid \in Procs \ {p} :
         (nrecv'[p][lid] # nrecv[p][lid] \/ peer'[p][lid].roff > peer[p][lid].roff) =>
           (peer[p][lid].rcount > 0 /\ peer[p][lid].roff < peer[p][lid].rcount)
    /\ toMem'[p] # toMem[p] => \E lid \in Procs \ {p} : nrecv'[p][lid] = nrecv[p][lid] + 1
    /\ warned'[p] # warned[p] =>
         /\ toMem'[p] = toMem[p]
         /\ peer'[p] = peer[p]
         /\ nrecv'[p] = nrecv[p]

\* C4: a data command is accepted only while the receiver holds outstanding
\* credit for the peer (rcount > 0 and roff < rcount); one that arrives
\* without credit is dropped: no memory is written, rcount, roff and ridx
\* are unchanged.
DataNeedsCredit == [][AcceptOnlyWithCredit]_vars

\* a data command was ignored by a process that had received a slice before
WitnessDataNeedsCredit ==
  \E p \in Procs : warned[p] > 0 /\ \E lid \in Procs \ {p} : nrecv[p][lid] > 0

\* C5 as stated: after rcount elements the receive cursor equals slc.to.
RidxEqualsTo ==
  \A r \in Procs : \A s \in Procs \ {r} :
    (peer[r][s].rcount > 0 /\ peer[r][s].roff = peer[r][s].rcount)
      => peer[r][s].ridx = peer[r][s].rslc.to

\* C5 amended: the cursor stays inside the slice while elements are missing,
\* next_lex ends the traversal exactly with element number rcount, and then
\* the cursor equals slc.to on the last axis and slc.from on the lower axes
\* (which is slc.to for a slice of dimension 1).
RidxEndsTraversal ==
  /\ \A p \in Procs : failed[p] \notin {"inTraversal", "got_data", "ecount"}
  /\ \A r \in Procs : \A s \in Procs \ {r} :
       LET pr == peer[r][s] IN
       pr.rcount > 0 =>
         /\ pr.roff < pr.rcount => pr.ridx \in SliceIdx(pr.rslc)
         /\ pr.roff = pr.rcount =>
              \A k \in 1 .. pr.rslc.dims :
                pr.ridx[k] = IF k = pr.rslc.dims THEN pr.rslc.to[k] ELSE pr.rslc.from[k]
         /\ (pr.roff = pr.rcount /\ pr.rslc.dims = 1) => pr.ridx = pr.rslc.to

\* a receive of a 3-dimensional block has got its last element
WitnessRidxEndsTraversal ==
  \E r \in Procs : \E s \in Procs \ {r} :
    /\ peer[r][s].rcount = 4
    /\ peer[r][s].roff = 4
    /\ peer[r][s].rslc.dims = 3

\* C6: in a completed execution the number of elements s has sent to r equals
\* the number r has received from s and the number the transition moves from
\* s to r; a receiver never counts more than was sent.
SentEqualsReceived ==
  /\ \A s \in Procs : \A r \in Procs \ {s} :
       /\ nrecv[r][s] <= nsent[s][r]
       /\ nsent[s][r] <= Moved(s, r)
       /\ nsent[s][r] = nrecv[r][s] + NumOf(chan[s][r], "data")
  /\ AllReturned =>
       \A s \in Procs : \A r \in Procs \ {s} :
         nsent[s][r] = Moved(s, r) /\ nrecv[r][s] = Moved(s, r)

\* a completed execution that moved two slices between the same two processes
WitnessSentEqualsReceived ==
  /\ AllReturned
  /\ \E s \in Procs : \E r \in Procs \ {s} :
       Cardinality({t \in trans : t.from = s /\ t.to = r}) = 2 /\ nrecv[r][s] = Moved(s, r)

(***************************************************************************)
(* Bootstrap: laik_init_tcp2 with the register, id and phase commands.     *)
(* All processes are started on the home host with LAIK_SIZE = WorldSize.  *)
(***************************************************************************)
\* LAIK_SIZE: the number of processes started
WorldSize == 3
\* the started processes; process p has PID 420p
BProcs == 1 .. WorldSize
\* TCP2_PORT
HomePort == 7777
\* precision of the two "%.30s" of the register command
RegPrecision == 30
\* field width of "%50s" when a command is parsed
ScanWidth == 50
\* lengths of the host name: a short name and a fully qualified one
HostLens == {4, 28}
\* ports the operating system may choose for a socket that was not bound
EphPorts == {HomePort + k : k \in 1 .. WorldSize}

HostName(n) == [i \in 1 .. n |-> "h"]
Digits == <<"0", "1", "2", "3", "4", "5", "6", "7", "8", "9">>
PidStr(p) == <<"4", "2", "0", Digits[p + 1]>>
\* location: hostname:PID
Location(n, p) == HostName(n) \o <<":">> \o PidStr(p)
\* at most n characters of a string: "%.<n>s" of printf, "%<n>s" of scanf
Precision(str, n) == SubSeq(str, 1, Min(Len(str), n))
\* default of LAIK_TCP2_HOST
HomeHost == <<"l", "o", "c", "a", "l", "h", "o", "s", "t">>

NoPeer == [known |-> FALSE, location |-> <<>>, host |-> <<>>, port |-> -1]

InitInst(n, p) ==
  [mylid |-> 0, maxid |-> -1, peers |-> 0, phase |-> -1, listenport |-> -1,
   host |-> HostName(n), location |-> Location(n, p),
   peer |-> [i \in 0 .. WorldSize - 1 |-> NoPeer]]

InitBoot ==
  /\ Idle("boot")
  /\ hostlen \in HostLens
  /\ bpc = [p \in BProcs |-> "bind"]
  /\ inst = [p \in BProcs |-> InitInst(hostlen, p)]
  /\ fdlid = [p \in BProcs |-> -1]
  /\ world_size = [p \in BProcs |-> 0]
  /\ listener = 0
  /\ bound = {}
  /\ toHome = [p \in BProcs |-> <<>>]
  /\ fromHome = [p \in BProcs |-> <<>>]
  /\ bfailed = [p \in BProcs |-> "none"]
  /\ regs = <<>>
  /\ idlog = [p \in BProcs |-> <<>>]

\* bind with SO_REUSEADDR fails only if a socket listens on the port
BindHome(p) ==
  /\ bpc[p] = "bind"
  /\ inst[p].mylid = 0
  /\ IF listener = 0
       THEN /\ bound' = bound \cup {p}
            /\ bpc' = [bpc EXCEPT ![p] = "listen"]
            /\ UNCHANGED inst
       ELSE /\ inst' = [inst EXCEPT ![p].mylid = -1]
            /\ bpc' = [bpc EXCEPT ![p] = "listen_any"]
            /\ UNCHANGED bound
  /\ Frame("boot")
  /\ UNCHANGED <<hostlen, fdlid, world_size, listener, toHome, fromHome,
                 bfailed, regs, idlog>>

\* listen on the bound socket fails if another process started listening
\* first; the socket is closed and the loop starts again
ListenHome(p) ==
  /\ bpc[p] = "listen"
  /\ bound' = bound \ {p}
  /\ IF listener = 0
       THEN /\ listener' = p
            /\ inst' = [inst EXCEPT ![p].listenport = HomePort]
            /\ bpc' = [bpc EXCEPT ![p] = "setup"]
       ELSE /\ bpc' = [bpc EXCEPT ![p] = "bind"]
            /\ UNCHANGED <<listener, inst>>
  /\ Frame("boot")
  /\ UNCHANGED <<hostlen, fdlid, world_size, toHome, fromHome,
                 bfailed, regs, idlog>>

\* listen on a socket that is not bound: the system chooses a free port,
\* which getsockname reports
ListenAny(p) ==
  /\ bpc[p] = "listen_any"
  /\ \E port \in EphPorts \ {inst[q].listenport : q \in BProcs} :
       inst' = [inst EXCEPT ![p].listenport = port]
  /\ bpc' = [bpc EXCEPT ![p] = "setup"]
  /\ Frame("boot")
  /\ UNCHANGED <<hostlen, fdlid, world_size, listener, bound, toHome,
                 fromHome, bfailed, regs, idlog>>

RegisterMsg(d) ==
  [type |-> "register",
   location |-> Precision(d.location, RegPrecision),
   host |-> Precision(d.host, RegPrecision),
   port |-> d.listenport]

IdMsg(lid, e) ==
  [type |-> "id", lid |-> lid, location |-> e.location, host |-> e.host,
   port |-> e.port]

PhaseMsg == [type |-> "phase", phase |-> 0]

\* peer 0 is initialised; home takes slot 0 and waits for the others,
\* a non-home process connects to home and registers
Setup(p) ==
  /\ bpc[p] = "setup"
  /\ LET d == inst[p]
         home == [known |-> d.mylid = 0,
                  location |-> IF d.mylid = 0 THEN d.location ELSE <<>>,
                  host |-> IF d.mylid = 0 THEN d.host ELSE HomeHost,
                  port |-> HomePort]
     IN IF d.mylid = 0
          THEN /\ inst' = [inst EXCEPT ![p].peer[0] = home, ![p].maxid = 0,
                                       ![p].phase = 0]
               /\ world_size' = [world_size EXCEPT ![p] = WorldSize]
               /\ bpc' = [bpc EXCEPT ![p] = IF WorldSize > 1 THEN "home_wait"
                                            ELSE "returned"]
               /\ UNCHANGED <<toHome, bfailed>>
          ELSE IF listener = 0
            THEN /\ bfailed' = [bfailed EXCEPT ![p] = "connect"]
                 /\ bpc' = [bpc EXCEPT ![p] = "abort"]
                 /\ UNCHANGED <<inst, world_size, toHome>>
            ELSE /\ inst' = [inst EXCEPT ![p].peer[0] = home]
                 /\ toHome' = [toHome EXCEPT ![p] = Append(@, RegisterMsg(d))]
                 /\ bpc' = [bpc EXCEPT ![p] = "reg_wait"]
                 /\ UNCHANGED <<world_size, bfailed>>
  /\ Frame("boot")
  /\ UNCHANGED <<hostlen, fdlid, listener, bound, fromHome, regs, idlog>>

\* the location ids 0 .. n as a sequence
RECURSIVE UpTo(_)
UpTo(n) == IF n < 0 THEN <<>> ELSE Append(UpTo(n - 1), n)

\* register <location> <host> <port>, read by h on the connection from p
got_register(h, p, msg) ==
  LET d == inst[h]
      l == Precision(msg.location, ScanWidth)
      hn == Precision(msg.host, ScanWidth)
      lid == d.maxid + 1
      entry == [known |-> TRUE, location |-> l, host |-> hn, port |-> msg.port]
      tab == [d.peer EXCEPT ![lid] = entry]
      fdl == [fdlid EXCEPT ![p] = lid]
      table == [k \in 1 .. lid |-> IdMsg(k - 1, tab[k - 1])]
  IN IF d.mylid # 0 \/ fdlid[p] >= 0
       THEN UNCHANGED <<inst, fdlid, fromHome, bfailed, bpc, regs, idlog>>
       ELSE IF lid \notin DOMAIN d.peer \/ d.peer[lid].port # -1
         THEN /\ bfailed' = [bfailed EXCEPT ![h] = "register"]
              /\ bpc' = [bpc EXCEPT ![h] = "abort"]
              /\ UNCHANGED <<inst, fdlid, fromHome, regs, idlog>>
         ELSE /\ inst' = [inst EXCEPT ![h].maxid = lid, ![h].peer = tab,
                                      ![h].peers = @ + 1]
              /\ fdlid' = fdl
              /\ fromHome' =
                   [q \in BProcs |->
                      IF fdl[q] < 1 THEN fromHome[q]
                      ELSE fromHome[q] \o <<IdMsg(lid, entry)>>
                             \o (IF q = p THEN table ELSE <<>>)]
              /\ idlog' =
                   [q \in BProcs |->
                      IF fdl[q] < 1 THEN idlog[q]
                      ELSE idlog[q] \o <<lid>>
                             \o (IF q = p THEN UpTo(lid - 1) ELSE <<>>)]
              /\ regs' = Append(regs, p)
              /\ UNCHANGED <<bfailed, bpc>>

\* home runs its event loop while peers + 1 < world_size
HomeGotCmd(h, p) ==
  /\ bpc[h] = "home_wait"
  /\ inst[h].peers + 1 < world_size[h]
  /\ toHome[p] # <<>>
  /\ toHome' = [toHome EXCEPT ![p] = Tail(@)]
  /\ got_register(h, p, Head(toHome[p]))
  /\ Frame("boot")
  /\ UNCHANGED <<hostlen, world_size, listener, bound>>

\* enough peers: phase 0 to the peers 1 .. maxid, laik_init_tcp2 returns
HomeSendPhase(h) ==
  /\ bpc[h] = "home_wait"
  /\ ~(inst[h].peers + 1 < world_size[h])
  /\ fromHome' = [q \in BProcs |->
                    IF fdlid[q] >= 1 /\ fdlid[q] <= inst[h].maxid
                      THEN Append(fromHome[q], PhaseMsg)
                      ELSE fromHome[q]]
  /\ bpc' = [bpc EXCEPT ![h] = "returned"]
  /\ Frame("boot")
  /\ UNCHANGED <<hostlen, inst, fdlid, world_size, listener, bound,
                 toHome, bfailed, regs, idlog>>

\* id <lid> <location> <host> <port>
got_id(p, msg) ==
  LET d == inst[p]
      lid == msg.lid
      l == Precision(msg.location, ScanWidth)
      hn == Precision(msg.host, ScanWidth)
      my == IF d.mylid < 0 /\ d.location = l THEN lid ELSE d.mylid
      e == d.peer[lid]
  IN IF d.mylid = 0
       THEN UNCHANGED <<inst, bfailed, bpc>>
       ELSE IF lid \notin DOMAIN d.peer
         THEN /\ bfailed' = [bfailed EXCEPT ![p] = "id"]
              /\ bpc' = [bpc EXCEPT ![p] = "abort"]
              /\ UNCHANGED inst
         ELSE IF e.known
           THEN /\ inst' = [inst EXCEPT ![p].mylid = my]
                /\ IF lid <= d.maxid /\ e.location = l /\ e.host = hn
                      /\ e.port = msg.port
                     THEN UNCHANGED <<bfailed, bpc>>
                     ELSE /\ bfailed' = [bfailed EXCEPT ![p] = "id"]
                          /\ bpc' = [bpc EXCEPT ![p] = "abort"]
           ELSE /\ inst' = [inst EXCEPT
                              ![p].mylid = my,
                              ![p].peer[lid] = [known |-> TRUE, location |-> l,
                                                host |-> hn, port |-> msg.port],
                              ![p].peers = IF lid # my THEN @ + 1 ELSE @,
                              ![p].maxid = IF lid > @ THEN lid ELSE @]
                /\ UNCHANGED <<bfailed, bpc>>

\* phase <phaseid>
got_phase(p, msg) ==
  IF inst[p].mylid = 0
    THEN UNCHANGED inst
    ELSE inst' = [inst EXCEPT ![p].phase = msg.phase]

\* a non-home process runs its event loop while phase = -1
NonHomeGotCmd(p) ==
  /\ bpc[p] = "reg_wait"
  /\ inst[p].phase = -1
  /\ fromHome[p] # <<>>
  /\ fromHome' = [fromHome EXCEPT ![p] = Tail(@)]
  /\ LET msg == Head(fromHome[p])
     IN IF msg.type = "id"
          THEN got_id(p, msg)
          ELSE got_phase(p, msg) /\ UNCHANGED <<bfailed, bpc>>
  /\ Frame("boot")
  /\ UNCHANGED <<hostlen, fdlid, world_size, listener, bound, toHome,
                 regs, idlog>>

\* phase is set: world size is peers + 1, laik_init_tcp2 returns
NonHomeReturn(p) ==
  /\ bpc[p] = "reg_wait"
  /\ inst[p].phase # -1
  /\ world_size' = [world_size EXCEPT ![p] = inst[p].peers + 1]
  /\ bpc' = [bpc EXCEPT ![p] = "returned"]
  /\ Frame("boot")
  /\ UNCHANGED <<hostlen, inst, fdlid, listener, bound, toHome,
                 fromHome, bfailed, regs, idlog>>

NextBoot ==
  \E p \in BProcs :
    \/ BindHome(p)
    \/ ListenHome(p)
    \/ ListenAny(p)
    \/ Setup(p)
    \/ \E q \in BProcs \ {p} : HomeGotCmd(p, q)
    \/ HomeSendPhase(p)
    \/ NonHomeGotCmd(p)
    \/ NonHomeReturn(p)

SpecBoot == InitBoot /\ [][NextBoot]_vars

(***************************************************************************)
(* Properties of the bootstrap                                             *)
(***************************************************************************)
Returned(p) == bpc[p] = "returned"

\* the location id home has given to registered process p
AssignedLid(p) == fdlid[p]

\* the id lines home sends to a peer with location id lid, up to maxid
IdLinesFor(lid, maxid) ==
  <<lid>> \o UpTo(lid - 1) \o [k \in 1 .. maxid - lid |-> lid + k]

\* C7: when laik_init_tcp2 has returned, the process reports world size N
\* and knows every location id 0..N-1; any two processes that have returned
\* hold the same location, host and port for every location id.
IdenticalPeerTables ==
  /\ \A p \in BProcs : bfailed[p] = "none"
  /\ \A p \in BProcs :
       Returned(p) =>
         /\ world_size[p] = WorldSize
         /\ \A lid \in 0 .. WorldSize - 1 : inst[p].peer[lid].known
  /\ \A p \in BProcs : \A q \in BProcs :
       (Returned(p) /\ Returned(q)) => inst[p].peer = inst[q].peer

\* C8: of the processes racing for the home port exactly one becomes home
\* (mylid = 0, listening on the home port); every other one, whether bind or
\* listen failed, listens on a port chosen by the system, is registered by
\* home and has got a location id different from 0 when it returns.
HomeRace ==
  /\ \A p \in BProcs : \A q \in BProcs :
       (inst[p].listenport = HomePort /\ inst[q].listenport = HomePort) => p = q
  /\ \A p \in BProcs :
       bpc[p] \in {"home_wait", "reg_wait", "returned"} =>
         /\ listener \in BProcs
         /\ inst[p].mylid = 0 <=> p = listener
         /\ p # listener => inst[p].listenport \in EphPorts
  /\ \A p \in BProcs :
       (Returned(p) /\ p # listener) =>
         /\ AssignedLid(p) >= 1
         /\ inst[p].mylid >= 1

\* C9: registered processes have the pairwise distinct location ids 1, 2, ...
\* in registration order, home has sent every registered process its own id
\* line, one id line per peer that existed and one per later newcomer, and a
\* non-home process that has returned has set mylid to the location id home
\* assigned to it.
LidAssignment ==
  /\ \A k \in 1 .. Len(regs) : AssignedLid(regs[k]) = k
  /\ \A p \in BProcs :
       AssignedLid(p) >= 1 => idlog[p] = IdLinesFor(AssignedLid(p), Len(regs))
  /\ \A p \in BProcs :
       (Returned(p) /\ p # listener) => inst[p].mylid = AssignedLid(p)

\* C10: phase 0 is sent only after world_size - 1 peers have registered and a
\* non-home process returns only with phase set, so a process that has
\* returned finds all N processes registered, and it returns a group of size
\* N that contains its own mylid.
ReturnAfterAllRegistered ==
  /\ \A p \in BProcs :
       (\E k \in 1 .. Len(fromHome[p]) : fromHome[p][k].type = "phase")
          => Len(regs) = WorldSize - 1
  /\ \A p \in BProcs :
       Returned(p) =>
         /\ Len(regs) = WorldSize - 1
         /\ inst[p].phase = 0
         /\ world_size[p] = WorldSize
         /\ inst[p].mylid \in 0 .. world_size[p] - 1

(***************************************************************************)
(* Collective backend: the send/receive part of laik_mpi_exec.  MPI_Send   *)
(* and MPI_Recv are blocking and complete together (rendezvous).           *)
(***************************************************************************)
\* largest number of slices one task sends to one other task
MaxOps == 2
\* the tasks of the group, g->size = MCount
MTasks == {0, 1, 2}
MCount == Cardinality(MTasks)

\* the peer a phase is about
TaskOfPhase(phase) == IF phase < MCount THEN phase ELSE 2 * MCount - phase - 1

\* variant: the receive loop ignores the direction of the sweep
RecvInPhaseBoth(phase, myid, from) == TaskOfPhase(phase) = from

\* the receive loop executes op (from task) in this phase
RecvInPhase(phase, myid, from) ==
  LET task == TaskOfPhase(phase)
      recvFromLower == phase < MCount
      recvFromHigher == phase >= MCount
  IN /\ task = from
     /\ ~(recvFromLower /\ myid < task)
     /\ ~(recvFromHigher /\ myid > task)

\* variant: the send loop sends to every peer in the first sweep
SendInPhaseFirstSweep(phase, myid, to) ==
  TaskOfPhase(phase) = to /\ phase < MCount

\* the send loop executes op (to task) in this phase
SendInPhase(phase, myid, to) ==
  LET task == TaskOfPhase(phase)
      sendToHigher == phase < MCount
      sendToLower == phase >= MCount
  IN /\ task = to
     /\ ~(sendToLower /\ myid < task)
     /\ ~(sendToHigher /\ myid > task)

\* the blocking operations of one phase: first the receives, then the sends,
\* each in the order of the transition's list
PhaseOps(p, phase) ==
  LET R(op) == RecvInPhase(phase, p, op.peer)
      S(op) == SendInPhase(phase, p, op.peer)
  IN SelectSeq(mrecv[p], R) \o SelectSeq(msend[p], S)

RECURSIVE OpsUpTo(_, _)
OpsUpTo(p, phase) ==
  IF phase < 0 THEN <<>> ELSE OpsUpTo(p, phase - 1) \o PhaseOps(p, phase)

\* all blocking operations of task p in the order of the phase loop
Schedule(p) == OpsUpTo(p, 2 * MCount - 1)

\* the operation task p is blocked in
MpiCur(p) == Schedule(p)[mip[p] + 1]

MpiBlocked(p) == mpc[p] = "exec" /\ mip[p] < Len(Schedule(p))

\* the ops of one list: for every peer in the given order, slices 1 .. n
RECURSIVE OpList(_, _, _, _)
OpList(ty, order, cnt, k) ==
  IF k > Len(order) THEN <<>>
  ELSE [j \in 1 .. cnt[order[k]] |-> [type |-> ty, peer |-> order[k], slc |-> j]]
         \o OpList(ty, order, cnt, k + 1)

\* orders in which a list names the peers
PeerOrders == {<<0, 1, 2>>, <<2, 0, 1>>}

InitMpi ==
  /\ Idle("mpi")
  /\ \E cnt \in [MTasks \X MTasks -> 0 .. MaxOps] : \E order \in PeerOrders :
       /\ \A p \in MTasks : cnt[<<p, p>>] = 0
       /\ msend = [p \in MTasks |->
                     OpList("send", order, [q \in MTasks |-> cnt[<<p, q>>]], 1)]
       /\ mrecv = [p \in MTasks |->
                     OpList("recv", order, [q \in MTasks |-> cnt[<<q, p>>]], 1)]
  /\ mip = [p \in MTasks |-> 0]
  /\ mpc = [p \in MTasks |-> "exec"]
  /\ mgot = [p \in MTasks |-> <<>>]

\* MPI_Send of s and the matching MPI_Recv of r complete
MpiTransfer(s, r) ==
  /\ Frame("mpi")
  /\ MpiBlocked(s)
  /\ MpiBlocked(r)
  /\ MpiCur(s).type = "send"
  /\ MpiCur(s).peer = r
  /\ MpiCur(r).type = "recv"
  /\ MpiCur(r).peer = s
  /\ mip' = [mip EXCEPT ![s] = @ + 1, ![r] = @ + 1]
  /\ mgot' = [mgot EXCEPT ![r] = Append(@, <<s, MpiCur(s).slc, MpiCur(r).slc>>)]
  /\ UNCHANGED <<msend, mrecv, mpc>>

\* the phase loop is through
MpiReturn(p) ==
  /\ Frame("mpi")
  /\ mpc[p] = "exec"
  /\ mip[p] = Len(Schedule(p))
  /\ mpc' = [mpc EXCEPT ![p] = "returned"]
  /\ UNCHANGED <<msend, mrecv, mip, mgot>>

NextMpi ==
  \/ \E s \in MTasks : \E r \in MTasks \ {s} : MpiTransfer(s, r)
  \/ \E p \in MTasks : MpiReturn(p)

SpecMpi == InitMpi /\ [][NextMpi]_vars

\* the tasks keep running: some enabled step is eventually taken
FairSpecMpi == SpecMpi /\ WF_vars(NextMpi)

MpiAllReturned == \A p \in MTasks : mpc[p] = "returned"

\* C11: with blocking rendezvous sends and receives every task completes
\* laik_mpi_exec under the double-sweep schedule, for every transition whose
\* send lists are matched by the receive lists of the peers; every message
\* is then received as the slice the receiver expected.
MpiExecCompletes ==
  /\ <>MpiAllReturned
  /\ [](\A p \in MTasks : \A k \in 1 .. Len(mgot[p]) : mgot[p][k][2] = mgot[p][k][3])

\* all tasks have completed a transition in which every task sends to every
\* other task
WitnessMpiExecCompletes ==
  /\ MpiAllReturned
  /\ \A p \in MTasks : \A q \in MTasks \ {p} :
       \E k \in 1 .. Len(mgot[p]) : mgot[p][k][1] = q
  /\ \E p \in MTasks : Len(mgot[p]) = 2 * MaxOps

(***************************************************************************)
(* Collective backend: manual reduction of laik_mpi_exec (input and output *)
(* group both proper subgroups of the three tasks of the group)            *)
(***************************************************************************)
RTasks == {0, 1, 2}
RedOps == {"Sum", "Prod", "Max", "Min"}

\* contents an uninitialised ptr[1] may point to
Garbage == {<<0, 0>>, <<9, 9>>}

\* the task lists of the proper subgroups, lowest rank first
SubGroups == {<<0>>, <<1>>, <<2>>, <<0, 1>>, <<0, 2>>, <<1, 2>>}

InGroup(tg, p) == \E i \in 1 .. Len(tg) : tg[i] = p

\* the values task p holds in its input buffer before the reduction
InputOf(p) == IF p = 0 THEN <<1, 9>> ELSE IF p = 1 THEN <<2, 5>> ELSE <<4, 7>>

\* the type's reduce on one element
ReduceElem(op, a, b) ==
  IF op = "Sum" THEN a + b
  ELSE IF op = "Prod" THEN a * b
  ELSE IF op = "Max" THEN (IF a > b THEN a ELSE b)
  ELSE (IF a < b THEN a ELSE b)

\* (d->type->reduce)(out, in1, in2, elemCount, redOp)
reduce(op, in1, in2) == [k \in 1 .. Len(in1) |-> ReduceElem(op, in1[k], in2[k])]

\* a store through toBase; it hits the input buffer if both are the same
WriteTo(b, alias, v) ==
  IF alias THEN [from |-> v, to |-> v] ELSE [b EXCEPT !.to = v]

\* the buffer ptr[i] points to
Deref(b, ptr) == IF ptr.own THEN b.from ELSE ptr.val

reduceTask == rgrp.out[1]

InitRed ==
  /\ Idle("red")
  /\ \E gi \in SubGroups : \E go \in SubGroups : \E op \in RedOps :
       rgrp = [in |-> gi, out |-> go, op |-> op]
  /\ ralias \in [RTasks -> BOOLEAN]
  /\ \A p \in RTasks : ralias[p] => InGroup(rgrp.out, p)
  /\ rbuf = [p \in RTasks |->
               [from |-> InputOf(p),
                to |-> IF ralias[p] THEN InputOf(p)
                       ELSE IF InGroup(rgrp.out, p) THEN <<0, 0>> ELSE <<>>]]
  /\ rpc = [p \in RTasks |-> "start"]
  /\ rptr = <<>>
  /\ rchan = [p \in RTasks |-> <<>>]
  /\ rres = [p \in RTasks |-> <<>>]
  /\ rfailed = [p \in RTasks |-> "none"]

\* a task that is not the reducing task sends its input if it is in the
\* input group
RedInputSend(p) ==
  /\ Frame("red")
  /\ p # reduceTask
  /\ rpc[p] = "start"
  /\ rchan' = [rchan EXCEPT ![p] = IF InGroup(rgrp.in, p)
                                     THEN Append(@, rbuf[p].from) ELSE @]
  /\ rpc' = [rpc EXCEPT ![p] = IF InGroup(rgrp.out, p) THEN "wait" ELSE "done"]
  /\ UNCHANGED <<rgrp, ralias, rbuf, rptr, rres, rfailed>>

\* ... and receives the result if it is in the output group
RedResultRecv(p) ==
  /\ Frame("red")
  /\ rpc[p] = "wait"
  /\ rres[p] # <<>>
  /\ rbuf' = [rbuf EXCEPT ![p] = WriteTo(@, ralias[p], Head(rres[p]))]
  /\ rres' = [rres EXCEPT ![p] = Tail(@)]
  /\ rpc' = [rpc EXCEPT ![p] = "done"]
  /\ UNCHANGED <<rgrp, ralias, rptr, rchan, rfailed>>

\* the reducing task: one round of the loop over the input group
RedCollect(p) ==
  /\ Frame("red")
  /\ p = reduceTask
  /\ rpc[p] = "start"
  /\ Len(rptr) < Len(rgrp.in)
  /\ LET q == rgrp.in[Len(rptr) + 1]
     IN IF q = p
          THEN /\ rptr' = Append(rptr, [own |-> TRUE, val |-> <<>>])
               /\ UNCHANGED rchan
          ELSE /\ rchan[q] # <<>>
               /\ rptr' = Append(rptr, [own |-> FALSE, val |-> Head(rchan[q])])
               /\ rchan' = [rchan EXCEPT ![q] = Tail(@)]
  /\ UNCHANGED <<rgrp, ralias, rbuf, rpc, rres, rfailed>>

\* index of the reducing task's own buffer in ptr[], 0 if it gives no input
MyIdx(ptr) ==
  IF \E i \in 1 .. Len(ptr) : ptr[i].own
    THEN CHOOSE i \in 1 .. Len(ptr) : ptr[i].own
    ELSE 0

\* the own buffer is moved to the front of ptr[]
SwapOwn(ptr) ==
  IF MyIdx(ptr) = 0 THEN ptr
  ELSE [ptr EXCEPT ![MyIdx(ptr)] = ptr[1], ![1] = ptr[MyIdx(ptr)]]

\* for(t = 2; t < count; t++) reduce(toBase, toBase, ptr[t])
RECURSIVE ReduceRest(_, _, _, _, _)
ReduceRest(op, b, alias, ptr, t) ==
  IF t > Len(ptr) THEN b
  ELSE ReduceRest(op, WriteTo(b, alias, reduce(op, b.to, Deref(b, ptr[t]))),
                  alias, ptr, t + 1)

\* the reducing task reduces what it has collected into toBase; with one
\* input the assert on the group size fails, or (asserts compiled out)
\* ptr[1] is read uninitialised
RedCompute(p) ==
  /\ Frame("red")
  /\ p = reduceTask
  /\ rpc[p] = "start"
  /\ Len(rptr) = Len(rgrp.in)
  /\ LET ptr == SwapOwn(rptr)
         b == rbuf[p]
     IN IF Len(ptr) > 1
          THEN /\ rbuf' = [rbuf EXCEPT ![p] =
                    ReduceRest(rgrp.op,
                               WriteTo(b, ralias[p],
                                       reduce(rgrp.op, Deref(b, ptr[1]), Deref(b, ptr[2]))),
                               ralias[p], ptr, 3)]
               /\ rpc' = [rpc EXCEPT ![p] = "send"]
               /\ UNCHANGED rfailed
          ELSE \/ /\ rfailed' = [rfailed EXCEPT ![p] = "assert"]
                  /\ rpc' = [rpc EXCEPT ![p] = "abort"]
                  /\ UNCHANGED rbuf
               \/ \E g \in Garbage :
                    /\ rbuf' = [rbuf EXCEPT ![p] =
                         WriteTo(b, ralias[p], reduce(rgrp.op, Deref(b, ptr[1]), g))]
                    /\ rpc' = [rpc EXCEPT ![p] = "send"]
                    /\ UNCHANGED rfailed
  /\ rptr' = SwapOwn(rptr)
  /\ UNCHANGED <<rgrp, ralias, rchan, rres>>

\* the result goes to every other task of the output group
RedResultSend(p) ==
  /\ Frame("red")
  /\ p = reduceTask
  /\ rpc[p] = "send"
  /\ rres' = [q \in RTasks |->
                IF q # p /\ InGroup(rgrp.out, q)
                  THEN Append(rres[q], rbuf[p].to) ELSE rres[q]]
  /\ rpc' = [rpc EXCEPT ![p] = "done"]
  /\ UNCHANGED <<rgrp, ralias, rbuf, rptr, rchan, rfailed>>

NextRed ==
  \E p \in RTasks :
    \/ RedInputSend(p)
    \/ RedResultRecv(p)
    \/ RedCollect(p)
    \/ RedCompute(p)
    \/ RedResultSend(p)

SpecRed == InitRed /\ [][NextRed]_vars

RECURSIVE FoldInputs(_, _, _)
FoldInputs(op, tg, n) ==
  IF n = 1 THEN InputOf(tg[1])
  ELSE reduce(op, FoldInputs(op, tg, n - 1), InputOf(tg[n]))

\* the element-wise reduction of the values of the input group
Reduced == FoldInputs(rgrp.op, rgrp.in, Len(rgrp.in))

RedDone == \A p \in RTasks : rpc[p] = "done"

\* C12: no task fails; when the manual reduction is through, every member of
\* the output group holds the element-wise reduction of the inputs of exactly
\* the members of the input group; a task outside the output group keeps
\* its data, and a member whose output buffer is another buffer keeps its
\* input.
ManualReduction ==
  /\ \A p \in RTasks : rfailed[p] = "none"
  /\ RedDone => \A p \in RTasks : InGroup(rgrp.out, p) => rbuf[p].to = Reduced
  /\ \A p \in RTasks :
       (~InGroup(rgrp.out, p) \/ (~ralias[p] /\ p # reduceTask)) =>
          rbuf[p].from = InputOf(p)
  /\ \A p \in RTasks : ~InGroup(rgrp.out, p) => rbuf[p].to = <<>>

(***************************************************************************)
(* Data container: laik_set_partitioning with allocMap, copyMap, initMap   *)
(* and freeMap, as seen by one process, for a 1-dimensional index space.   *)
(* Doubles are named by integers: m * 10^e (one digit m) is 10 * e + m,    *)
(* which keeps 0, 1 and the order.                                         *)
(***************************************************************************)
\* largest number of calls of laik_set_partitioning
MaxCalls == 2

Dec(m, e) == 10 * e + m
\* DBL_MAX is 1.797..e308, DBL_MIN is the smallest positive double
DblMax == Dec(1, 308)
\* some values of type double, the largest and the lowest among them
DoubleValues == {-DblMax, -Dec(1, 100), -Dec(9, 99), -2, -1, 0, 1, 2,
                 Dec(9, 99), Dec(1, 100), DblMax}

\* what malloc'ed memory holds before it is written
Uninit == 999999

\* own borders [from, to) a partitioning may give this process
Borders == {<<0, 3>>, <<1, 4>>, <<2, 4>>, <<2, 2>>}
\* access behaviours: copy in, or one of the reductions
Access == {"ReadWrite", "Sum", "Prod", "Min", "Max"}

IsReduction(ap) == ap # "ReadWrite"

NoCall == [pc |-> "idle", p |-> 0, toMap |-> 0, local |-> <<>>, init |-> <<>>,
           initRedOp |-> "None", v |-> 0, oldMap |-> 0, oldmem |-> <<>>,
           oldbase |-> 0, premem |-> <<>>]

InitCont ==
  /\ Idle("cont")
  /\ cd = [activePartitioning |-> 0, activeMapping |-> 0]
  /\ cparts = <<>>
  /\ cmaps = <<>>
  /\ ccall = NoCall
  /\ ccalls = 0
  /\ cuaf = FALSE
  /\ coob = FALSE

\* allocMap: count elements from the own border, uninitialised memory,
\* base = 0 (no memory) for an empty border
allocMap(pid, border) ==
  LET count == border[2] - border[1]
  IN [partitioning |-> pid, count |-> count, baseIdx |-> border[1],
      mem |-> [k \in 1 .. count |-> Uninit], frees |-> 0]

\* the slices of the transition on this process: the part of the new border
\* owned before is copied locally if the new access reads it; a border with
\* reduction access is initialised
LocalSlices(old, new) ==
  LET lo == IF old.border[1] > new.border[1] THEN old.border[1] ELSE new.border[1]
      hi == IF old.border[2] < new.border[2] THEN old.border[2] ELSE new.border[2]
  IN IF ~IsReduction(new.ap) /\ lo < hi THEN <<<<lo, hi>>>> ELSE <<>>

InitSlices(new) ==
  IF IsReduction(new.ap) /\ new.border[1] < new.border[2]
    THEN <<new.border>> ELSE <<>>

\* laik_set_partitioning(d, p) is called with a new partitioning p: borders
\* are calculated, the new mapping is allocated, the transition is planned
SetPartitioningEnter ==
  /\ Frame("cont")
  /\ ccall.pc = "idle"
  /\ ccalls < MaxCalls
  /\ \E border \in Borders : \E ap \in Access :
       LET pid == Len(cparts) + 1
           mid == Len(cmaps) + 1
           new == [border |-> border, ap |-> ap, live |-> TRUE]
           old == cd.activePartitioning
           om == cd.activeMapping
       IN /\ cparts' = Append(cparts, new)
          /\ cmaps' = Append(cmaps, allocMap(pid, border))
          /\ ccall' = [NoCall EXCEPT
               !.pc = "exec", !.p = pid, !.toMap = mid,
               !.local = IF old = 0 THEN <<>> ELSE LocalSlices(cparts[old], new),
               !.init = InitSlices(new),
               !.initRedOp = IF IsReduction(ap) THEN ap ELSE "None",
               !.oldMap = om,
               !.oldmem = IF om = 0 THEN <<>> ELSE cmaps[om].mem,
               !.oldbase = IF om = 0 THEN 0 ELSE cmaps[om].baseIdx]
          /\ cuaf' = (cuaf \/ (old # 0 /\ ~cparts[old].live))
  /\ ccalls' = ccalls + 1
  /\ UNCHANGED <<cd, coob>>

\* a read or write of mapping m through its pointer: a use after free if the
\* mapping was freed before
Stale(m) == m # 0 /\ cmaps[m].frees > 0

\* the backend executes the send/recv/reduce actions of the transition: it
\* reads the active (old) mapping and writes the new one
BackendExec ==
  /\ Frame("cont")
  /\ ccall.pc = "exec"
  /\ cuaf' = (cuaf \/ Stale(cd.activeMapping) \/ Stale(ccall.toMap))
  /\ ccall' = [ccall EXCEPT !.pc = "copy"]
  /\ UNCHANGED <<cd, cparts, cmaps, ccalls, coob>>

\* memcpy of count elements between the two memories, both indexed from
\* the start of their mapping (0-based offsets)
Memcpy(to, toStart, from, fromStart, count) ==
  [k \in 1 .. Len(to) |->
     IF k > toStart /\ k <= toStart + count /\ k - toStart + fromStart <= Len(from)
       THEN from[k - toStart + fromStart] ELSE to[k]]

toStartGlobal(s, toMap) == s[1]
\* offset of the slice in the new mapping
toStartLocal(s, toMap) == s[1] - toMap.baseIdx

\* the loop of copyMap: local slice i is copied from its offset in the old
\* mapping to its offset in the new mapping
RECURSIVE copySlices(_, _, _, _, _)
copySlices(local, i, mem, toMap, fromMap) ==
  IF i > Len(local) THEN mem
  ELSE LET s == local[i]
           count == s[2] - s[1]
           fromStart == s[1] - fromMap.baseIdx
           toStart == toStartLocal(s, toMap)
       IN copySlices(local, i + 1,
                     IF count > 0
                       THEN Memcpy(mem, toStart, fromMap.mem, fromStart, count)
                       ELSE mem,
                     toMap, fromMap)

\* copyMap: nothing to do for an empty new mapping or an old mapping
\* without memory
copyMap(local, toMap, fromMap) ==
  IF toMap.count = 0 \/ fromMap.count = 0 THEN toMap.mem
  ELSE copySlices(local, 1, toMap.mem, toMap, fromMap)

\* local copy action, if the transition has local slices
CopyStep ==
  /\ Frame("cont")
  /\ ccall.pc = "copy"
  /\ IF Len(ccall.local) > 0
       THEN /\ cmaps' = [cmaps EXCEPT ![ccall.toMap].mem =
                  copyMap(ccall.local, cmaps[ccall.toMap], cmaps[cd.activeMapping])]
            /\ cuaf' = (cuaf \/ Stale(cd.activeMapping) \/ Stale(ccall.toMap))
       ELSE UNCHANGED <<cmaps, cuaf>>
  /\ ccall' = [ccall EXCEPT !.pc = "init", !.premem = cmaps'[ccall.toMap].mem]
  /\ UNCHANGED <<cd, cparts, ccalls, coob>>

\* the value initMap writes for a reduction, for type double
InitValue(op) ==
  CASE op = "Sum" -> 0
    [] op = "Prod" -> 1
    [] op = "Min" -> Dec(9, 99)
    [] op = "Max" -> -Dec(9, 99)

\* the loop "for j = s->from; j < s->to; j++ dbase[j] = v" of initMap:
\* dbase[j] is element j of the memory, counted from the start of the mapping
RECURSIVE writeRange(_, _, _, _)
writeRange(mem, j, to, v) ==
  IF j >= to THEN mem
  ELSE writeRange(IF j + 1 <= Len(mem) THEN [mem EXCEPT ![j + 1] = v] ELSE mem,
                  j + 1, to, v)

RECURSIVE initSlices(_, _, _, _)
initSlices(init, i, mem, v) ==
  IF i > Len(init) THEN mem
  ELSE initSlices(init, i + 1, writeRange(mem, init[i][1], init[i][2], v), v)

\* initMap: nothing to do for an empty new mapping
initMap(init, op, toMap) ==
  IF toMap.count = 0 THEN toMap.mem
  ELSE initSlices(init, 1, toMap.mem, InitValue(op))

\* initMap writes dbase[j] for j up to s->to - 1: beyond the memory of the
\* mapping if there are fewer elements
InitOutOfBounds(init, toMap) ==
  toMap.count > 0 /\ \E i \in 1 .. Len(init) :
     init[i][1] < init[i][2] /\ init[i][2] > toMap.count

\* local init action, if the transition has init slices
InitStep ==
  /\ Frame("cont")
  /\ ccall.pc = "init"
  /\ IF Len(ccall.init) > 0
       THEN /\ cmaps' = [cmaps EXCEPT ![ccall.toMap].mem =
                  initMap(ccall.init, ccall.initRedOp, cmaps[ccall.toMap])]
            /\ coob' = (coob \/ InitOutOfBounds(ccall.init, cmaps[ccall.toMap]))
            /\ cuaf' = (cuaf \/ Stale(ccall.toMap))
            /\ ccall' = [ccall EXCEPT !.pc = "free",
                                      !.v = InitValue(ccall.initRedOp)]
       ELSE /\ UNCHANGED <<cmaps, coob, cuaf>>
            /\ ccall' = [ccall EXCEPT !.pc = "free"]
  /\ UNCHANGED <<cd, cparts, ccalls>>

freeMapNot(m) == m
\* freeMap(m): the memory and the mapping are released
freeMap(m) == [m EXCEPT !.frees = m.frees + 1]

\* the old mapping and the old partitioning are freed, if there are any
FreeOld ==
  /\ Frame("cont")
  /\ ccall.pc = "free"
  /\ cmaps' = IF cd.activeMapping # 0
                THEN [cmaps EXCEPT ![cd.activeMapping] = freeMap(cmaps[cd.activeMapping])]
                ELSE cmaps
  /\ cparts' = IF cd.activePartitioning # 0
                 THEN [cparts EXCEPT ![cd.activePartitioning].live = FALSE]
                 ELSE cparts
  /\ ccall' = [ccall EXCEPT !.pc = "set"]
  /\ UNCHANGED <<cd, ccalls, cuaf, coob>>

\* the new partitioning and the new mapping become the active ones, and
\* laik_set_partitioning returns
SetActive ==
  /\ Frame("cont")
  /\ ccall.pc = "set"
  /\ cd' = [activePartitioning |-> ccall.p, activeMapping |-> ccall.toMap]
  /\ ccall' = [ccall EXCEPT !.pc = "idle"]
  /\ UNCHANGED <<cparts, cmaps, ccalls, cuaf, coob>>

\* between two calls the application writes its data through the pointer
\* laik_map returns for the active mapping: element k gets a value that
\* names its global index
AppWrite ==
  /\ Frame("cont")
  /\ ccall.pc = "idle"
  /\ cd.activeMapping # 0
  /\ LET m == cmaps[cd.activeMapping]
         filled == [k \in 1 .. m.count |-> 10 + m.baseIdx + k - 1]
     IN /\ m.mem # filled
        /\ cmaps' = [cmaps EXCEPT ![cd.activeMapping].mem = filled]
        /\ cuaf' = (cuaf \/ m.frees > 0)
  /\ UNCHANGED <<cd, cparts, ccall, ccalls, coob>>

NextCont ==
  \/ SetPartitioningEnter
  \/ BackendExec
  \/ CopyStep
  \/ InitStep
  \/ FreeOld
  \/ SetActive
  \/ AppWrite

SpecCont == InitCont /\ [][NextCont]_vars

(***************************************************************************)
(* Properties of the data container                                        *)
(***************************************************************************)
InTransition == ccall.pc \in {"exec", "copy", "init", "free"}

\* C13: laik_set_partitioning keeps the old partitioning and mapping active
\* and unfreed while the transition (backend actions, local copy, init) runs,
\* frees the old mapping exactly once after it, never reads or writes a
\* freed mapping, and on return the active pair is the new partitioning with
\* the new mapping, every earlier mapping being freed exactly once.
SwapAfterTransition ==
  /\ ~cuaf
  /\ \A m \in 1 .. Len(cmaps) : cmaps[m].frees <= 1
  /\ InTransition =>
       /\ cd.activeMapping = ccall.oldMap
       /\ cd.activeMapping # ccall.toMap
       /\ (cd.activeMapping # 0 => cmaps[cd.activeMapping].frees = 0)
       /\ (cd.activePartitioning # 0 => cparts[cd.activePartitioning].live)
  /\ (ccall.pc = "set" /\ ccall.oldMap # 0) => cmaps[ccall.oldMap].frees = 1
  /\ (ccall.pc = "idle" /\ ccalls > 0) =>
       /\ cd = [activePartitioning |-> ccall.p, activeMapping |-> ccall.toMap]
       /\ cmaps[ccall.toMap].partitioning = ccall.p
       /\ cparts[ccall.p].live
       /\ \A m \in 1 .. Len(cmaps) :
            cmaps[m].frees = IF m = ccall.toMap THEN 0 ELSE 1

\* a second call has returned: the mapping of the first call is freed and
\* the pair of the second call is active
WitnessSwapAfterTransition ==
  /\ ccalls >= 2
  /\ ccall.pc = "idle"
  /\ cmaps[1].frees = 1
  /\ cd.activeMapping = 2

\* the copy and init actions of the call are done, the call is about to
\* free the old mapping and return
ActionsDone == ccall.pc \in {"free", "set"}

\* the element of global index idx in a memory whose first element has
\* global index base
ElemAt(mem, base, idx) == mem[idx - base + 1]

InInitSlice(idx) ==
  \E i \in 1 .. Len(ccall.init) :
    ccall.init[i][1] <= idx /\ idx < ccall.init[i][2]

\* C15: when laik_set_partitioning has done its local actions, every index
\* of an init slice holds in the new mapping the value initMap uses for the
\* reduction, every element outside the init slices is as it was before the
\* initialisation, and no write fell outside the memory of the mapping, for
\* every base index of the new mapping.
InitSlicesInitialised ==
  /\ ~coob
  /\ ActionsDone =>
       LET m == cmaps[ccall.toMap]
       IN \A k \in 1 .. m.count :
            m.mem[k] = IF InInitSlice(m.baseIdx + k - 1)
                         THEN InitValue(ccall.initRedOp)
                         ELSE ccall.premem[k]

\* C16: the value initMap writes for a reduction is the identity of the
\* operation for type double: 0 for Sum, 1 for Prod, the largest double for
\* Min, the lowest double for Max, so that reducing it with any value v of
\* the type yields v.
InitValueIsIdentity ==
  (ActionsDone /\ Len(ccall.init) > 0) =>
    /\ ccall.v = (CASE ccall.initRedOp = "Sum" -> 0
                    [] ccall.initRedOp = "Prod" -> 1
                    [] ccall.initRedOp = "Min" -> DblMax
                    [] ccall.initRedOp = "Max" -> -DblMax)
    /\ \A x \in DoubleValues : ReduceElem(ccall.initRedOp, ccall.v, x) = x

\* the part of C16 the code meets: Sum and Prod
InitValueIsIdentitySumProd ==
  (ActionsDone /\ Len(ccall.init) > 0 /\ ccall.initRedOp \in {"Sum", "Prod"}) =>
    /\ ccall.v = (IF ccall.initRedOp = "Sum" THEN 0 ELSE 1)
    /\ \A x \in DoubleValues : ReduceElem(ccall.initRedOp, ccall.v, x) = x

(***************************************************************************)
(* TCP2 line framing: got_bytes and process_rbuf on one descriptor, with   *)
(* what got_cmd writes into the receive buffer.  Bytes are one-character   *)
(* strings, "NL" is the newline, "NUL" the zero byte, "?" an unwritten     *)
(* byte of the malloc'ed buffer.                                           *)
(***************************************************************************)
\* longest byte stream
MaxStream == 4
RBUF_LEN == 256
\* strlen of "# My locID is 0", the first text the status command prints
\* into msg
StatusLen == 15

\* first characters of the commands "status", "phase" and "quit", and the
\* newline
Bytes == {"s", "p", "q", "NL"}

RECURSIVE Streams(_)
Streams(n) ==
  IF n = 0 THEN {<<>>}
  ELSE LET shorter == Streams(n - 1)
       IN shorter \cup {Append(s, b) : s \in {t \in shorter : Len(t) = n - 1}, b \in Bytes}

\* nothing was done on a freed buffer
NoNote == [after |-> <<>>, wrote |-> FALSE]

InitFrame ==
  /\ Idle("frame")
  /\ fstream \in Streams(MaxStream) \ {<<>>}
  /\ fpos = 0
  /\ frbuf = [k \in 1 .. RBUF_LEN |-> "?"]
  /\ fused = 0
  /\ fcmds = <<>>
  /\ fstate = "open"
  /\ fnote = NoNote

\* sprintf(msg, ...) of a text of n characters: the text and its
\* terminating zero byte are written from the start of msg
Sprintf(buf, pos1, n) ==
  [k \in 1 .. Len(buf) |->
     IF k > pos1 /\ k <= pos1 + n THEN "#"
     ELSE IF k = pos1 + n + 1 THEN "NUL"
     ELSE buf[k]]

\* what got_cmd(d, fd, msg, len) leaves in the buffer msg points into:
\* the status command prints its answer into msg, phase writes nothing
GotCmdBuf(buf, pos1, pos2) ==
  IF pos2 > pos1 /\ buf[pos1 + 1] = "s"
    THEN Sprintf(buf, pos1, StatusLen)
    ELSE buf

\* the freed buffer as the scan loop reads it on: its old content, or
\* (junk) other bytes the allocator put there
Freed(buf, from, junk) ==
  IF junk THEN [k \in 1 .. Len(buf) |-> IF k > from THEN "?" ELSE buf[k]]
  ELSE buf

\* the scan loop of process_rbuf, positions counted from 0 as in the code,
\* taken from one newline to the next (the bytes between only advance pos2):
\* at a newline the line is terminated and passed to got_cmd; a quit line
\* makes got_cmd call rm_rfd, which frees the buffer the loop reads on
\* (a second quit fails rm_rfd's assertion cb != 0)
RECURSIVE ScanRbuf(_, _, _, _, _)
ScanRbuf(buf, pos1, pos2, used, acc) ==
  LET newlines == {k \in pos2 .. (used - 1) : buf[k + 1] = "NL"}
  IN IF newlines = {} \/ acc.failed THEN [acc EXCEPT !.rbuf = buf, !.pos1 = pos1]
     ELSE LET nl == CHOOSE k \in newlines : \A j \in newlines : k <= j
              term == [buf EXCEPT ![nl + 1] = "NUL"]
              line == SubSeq(term, pos1 + 1, nl)
              quit == nl > pos1 /\ term[pos1 + 1] = "q"
              acc2 == [acc EXCEPT
                         !.cmds = Append(@, line),
                         !.after = IF acc.freed THEN Append(@, line) ELSE @,
                         !.freed = @ \/ quit,
                         !.failed = acc.freed /\ quit]
          IN ScanRbuf(IF quit THEN Freed(term, nl + 1, acc.junk)
                      ELSE GotCmdBuf(term, pos1, nl),
                      nl + 1, nl + 1, used, acc2)

\* process_rbuf: scan, then move the incomplete tail to the buffer start
\* and store rbuf_used
process_rbuf(buf, used, cmds, junk) ==
  LET r == ScanRbuf(buf, 0, 0, used,
                    [cmds |-> cmds, after |-> <<>>, freed |-> FALSE,
                     failed |-> FALSE, junk |-> junk, rbuf |-> buf, pos1 |-> 0])
      left == used - r.pos1
  IN [rbuf |-> IF r.pos1 > 0
                 THEN [k \in 1 .. Len(buf) |->
                         IF k <= left THEN r.rbuf[r.pos1 + k] ELSE r.rbuf[k]]
                 ELSE r.rbuf,
      used |-> IF r.pos1 > 0 THEN left ELSE used,
      cmds |-> r.cmds,
      freed |-> r.freed,
      failed |-> r.failed,
      after |-> r.after]

\* the size read() is given: the free part of the buffer
ReadMaxNoLimit(used) == RBUF_LEN

ReadMax(used) == RBUF_LEN - used

\* the numbers of bytes one read() returns: few bytes, or all it can take
ReadLens(avail) == {l \in 1 .. avail : l <= MaxStream \/ l >= avail - 1}

\* got_bytes: panic on a full buffer; else read() returns len > 0 bytes,
\* which are appended to the buffer and processed
GotBytes ==
  /\ Frame("frame")
  /\ fstate = "open"
  /\ IF fused = RBUF_LEN
       THEN /\ fstate' = "panic"
            /\ UNCHANGED <<frbuf, fused, fcmds, fpos, fnote>>
       ELSE \E len \in ReadLens(Min(ReadMax(fused), Len(fstream) - fpos)) :
            \E junk \in BOOLEAN :
              LET filled == [k \in 1 .. (IF fused + len > RBUF_LEN
                                          THEN fused + len ELSE RBUF_LEN) |->
                               IF k > fused /\ k <= fused + len
                                 THEN fstream[fpos + k - fused] ELSE frbuf[k]]
                  r == process_rbuf(filled, fused + len, fcmds, junk)
              IN /\ frbuf' = r.rbuf
                 /\ fused' = r.used
                 /\ fcmds' = r.cmds
                 /\ fpos' = fpos + len
                 /\ fstate' = IF r.failed THEN "assert(cb != 0)"
                              ELSE IF r.freed THEN "removed" ELSE "open"
                 /\ fnote' = IF r.freed
                             THEN [after |-> r.after, wrote |-> ~r.failed]
                             ELSE fnote
  /\ UNCHANGED fstream

\* got_bytes with read() = 0, the other side has closed the connection:
\* a newline is put behind the buffered bytes, process_rbuf runs, the
\* buffer must be empty, and the descriptor is closed and removed
GotClose ==
  /\ Frame("frame")
  /\ fstate = "open"
  /\ fpos = Len(fstream)
  /\ fused < RBUF_LEN
  /\ LET r == process_rbuf([frbuf EXCEPT ![fused + 1] = "NL"], fused, fcmds, FALSE)
     IN /\ frbuf' = r.rbuf
        /\ fused' = r.used
        /\ fcmds' = r.cmds
        /\ fstate' = IF r.used # 0 THEN "assert(rbuf_used == 0)" ELSE "closed"
  /\ UNCHANGED <<fstream, fpos, fnote>>

NextFrame == GotBytes \/ GotClose

SpecFrame == InitFrame /\ [][NextFrame]_vars

\* streams longer than the buffer: one line of RBUF_LEN + 2 bytes, or with
\* a newline at its start or around the end of the buffer
LongStreams ==
  {[k \in 1 .. (RBUF_LEN + 2) |-> IF k = nl THEN "NL" ELSE "p"] :
     nl \in {0, 1, RBUF_LEN, RBUF_LEN + 1}}

InitFill ==
  /\ Idle("frame")
  /\ fstream \in LongStreams
  /\ fpos = 0
  /\ frbuf = [k \in 1 .. RBUF_LEN |-> "?"]
  /\ fused = 0
  /\ fcmds = <<>>
  /\ fstate = "open"
  /\ fnote = NoNote

SpecFill == InitFill /\ [][NextFrame]_vars

\* the stream read so far, split at newlines: the complete lines, and the
\* incomplete tail
RECURSIVE SplitLines(_, _, _)
SplitLines(s, lines, cur) ==
  LET newlines == {k \in 1 .. Len(s) : s[k] = "NL"}
  IN IF newlines = {} THEN [lines |-> lines, tail |-> cur \o s]
     ELSE LET nl == CHOOSE k \in newlines : \A j \in newlines : k <= j
          IN SplitLines(SubSeq(s, nl + 1, Len(s)),
                        Append(lines, cur \o SubSeq(s, 1, nl - 1)), <<>>)

\* C20: whatever the split of the byte stream into reads, as long as the
\* descriptor is in the event loop the messages passed to got_cmd are the
\* complete lines of the bytes read so far, once each and in order, and the
\* incomplete tail is what the buffer holds.
FramingIndependentOfChunks ==
  LET split == SplitLines(SubSeq(fstream, 1, fpos), <<>>, <<>>)
  IN fstate = "open" =>
       /\ fcmds = split.lines
       /\ SubSeq(frbuf, 1, fused) = split.tail

(***************************************************************************)
(* TCP2 connections of one process after bootstrap: commands arriving on   *)
(* the descriptors of the event loop (got_cmd), connections closed by the  *)
(* other side (got_bytes with read() = 0), accepted connections            *)
(* (got_connect) and commands sent (send_cmd, ensure_conn).                *)
(***************************************************************************)
\* largest number of events
MaxEvents == 3
\* location ids 0 .. MaxLid; 0, 1 and 2 are assigned at the start
MaxLid == 3
\* descriptors the process may get: FirstFd .. MaxFd
FirstFd == 3
MaxFd == 6

Lids == 0 .. MaxLid
FDs == FirstFd .. MaxFd

\* the commands a descriptor may deliver; "x" is a verb got_cmd does not know
Commands ==
  [verb : {"register", "help", "kill", "quit", "#", "status", "x",
           "resize", "remove", "done"}]
    \cup [verb : {"myid"}, peerid : {0, 1, 2, MaxLid}]
    \cup [verb : {"data"}]
    \cup [verb : {"id"}, lid : {2, MaxLid}]
    \cup [verb : {"phase"}, phase : {1}]
    \cup [verb : {"allowsend"}, count : {2}]

UnknownPeer == [fd |-> -1, known |-> FALSE, rcount |-> 0, roff |-> 0, scount |-> 0]
KnownPeer(fd) == [fd |-> fd, known |-> TRUE, rcount |-> 0, roff |-> 0, scount |-> 0]
\* with each descriptor the model notes how it was opened (how), the first
\* command the process wrote to it (sent) and the first command it received
\* on it (recv1: -2 nothing yet, the peerid of a myid, -1 another command)
NoFd == [cb |-> FALSE, lid |-> -1, how |-> "none", sent |-> "none", recv1 |-> -2]
\* a descriptor opened during bootstrap, tagged with lid
BootFd(lid) == [cb |-> TRUE, lid |-> lid, how |-> "boot", sent |-> "other", recv1 |-> -1]

\* the process is home (mylid 0), with peers 1 and 2 registered on accepted
\* connections, or it is peer 1, connected to home and knowing peer 2
InitConn ==
  /\ Idle("conn")
  /\ \E me \in {0, 1} :
       /\ kd = [mylid |-> me, maxid |-> 2, peers |-> 2, phase |-> 0,
                exit |-> 0, exited |-> FALSE]
       /\ kpeer = IF me = 0
                    THEN [l \in Lids |->
                            IF l = 0 THEN KnownPeer(-1)
                            ELSE IF l <= 2 THEN KnownPeer(FirstFd + l - 1)
                            ELSE UnknownPeer]
                    ELSE [l \in Lids |->
                            IF l = 0 THEN KnownPeer(FirstFd)
                            ELSE IF l <= 2 THEN KnownPeer(-1)
                            ELSE UnknownPeer]
       /\ kfds = IF me = 0
                   THEN [f \in FDs |->
                           IF f < FirstFd + 2 THEN BootFd(f - FirstFd + 1)
                           ELSE NoFd]
                   ELSE [f \in FDs |->
                           IF f = FirstFd THEN BootFd(0) ELSE NoFd]
       /\ kopen = IF me = 0 THEN {FirstFd, FirstFd + 1} ELSE {FirstFd}
  /\ kbad = FALSE
  /\ kdropped = {}
  /\ klast = [kind |-> "none"]
  /\ kn = 0
  /\ kpc = "none"
  /\ kready = {}
  /\ kint = -1

\* the state the handlers work on
KState == [d |-> kd, peer |-> kpeer, fds |-> kfds, open |-> kopen,
           bad |-> kbad, dropped |-> kdropped, dialed |-> FALSE]

add_rfd(st, fd) == [st EXCEPT !.fds[fd] = [NoFd EXCEPT !.cb = TRUE]]

\* rm_rfd: the descriptor leaves the read set, cb is cleared
rm_rfd(st, fd) == [st EXCEPT !.fds[fd].cb = FALSE]

\* socket()/accept() return the lowest descriptor not open
NewFd(st) == CHOOSE f \in FDs \ st.open : \A g \in FDs \ st.open : f <= g

\* write(fd, ...): fails on a descriptor that is not open
WriteFd(st, fd) ==
  [st EXCEPT !.bad = st.bad \/ fd \notin st.open,
             !.fds[fd].sent = IF fd \in st.open /\ @ = "none" THEN "other" ELSE @]

IsConnectedFd(p) == p.fd >= 0

\* ensure_conn: nothing to do if peer[lid].fd >= 0; else connect (the
\* process exits if it cannot), register the descriptor in the loop, tag it
\* with lid and send "myid"
ensure_conn(st, lid) ==
  IF IsConnectedFd(st.peer[lid]) \/ st.d.exited THEN st
  ELSE IF FDs \ st.open = {} THEN [st EXCEPT !.d.exited = TRUE]
  ELSE LET fd == NewFd(st)
           s1 == add_rfd([st EXCEPT !.open = st.open \cup {fd},
                                    !.peer[lid].fd = fd,
                                    !.dropped = st.dropped \ {lid},
                                    !.dialed = TRUE], fd)
           s2 == [s1 EXCEPT !.fds[fd].lid = lid, !.fds[fd].how = "dialed"]
       IN IF st.d.mylid >= 0
            THEN WriteFd([s2 EXCEPT !.fds[fd].sent = "myid"], fd)
            ELSE s2

\* send_cmd(d, lid, cmd): to peer lid if lid >= 0, else to descriptor -lid
SendCmd(st, lid) ==
  IF lid >= 0
    THEN LET s1 == ensure_conn(st, lid)
         IN IF s1.d.exited THEN s1 ELSE WriteFd(s1, s1.peer[lid].fd)
    ELSE WriteFd(st, -lid)

\* send_cmd to the peers from .. to, in order
RECURSIVE SendCmds(_, _, _)
SendCmds(st, from, to) ==
  IF from > to THEN st ELSE SendCmds(SendCmd(st, from), from + 1, to)

KRegisterAlways(st, fd) ==
  LET lid == st.d.maxid + 1
  IN [st EXCEPT !.d.maxid = lid, !.fds[fd].lid = lid,
                !.peer[lid] = KnownPeer(fd), !.d.peers = st.d.peers + 1]

\* "register": ignored unless the process is home and the descriptor has
\* no lid; else the next lid is assigned and announced
KRegister(st, fd) ==
  IF st.d.mylid # 0 THEN st
  ELSE IF st.fds[fd].lid >= 0 THEN st
  ELSE LET lid == st.d.maxid + 1
           s1 == [st EXCEPT !.d.maxid = lid,
                            !.fds[fd].lid = lid,
                            !.peer[lid] = KnownPeer(fd),
                            !.dropped = st.dropped \ {lid}]
           s2 == SendCmd(SendCmds(s1, 1, lid), lid)
       IN [s2 EXCEPT !.d.peers = st.d.peers + 1, !.d.exit = 1]

KMyidIgnore(st, fd, peerid) == st
\* "myid <peerid>": tags a descriptor without lid with the lid of a peer
\* that is already known; the handler's assertions end the process if the
\* peer is not known
KMyid(st, fd, peerid) ==
  IF st.fds[fd].lid >= 0 THEN st
  ELSE IF st.d.mylid = peerid THEN st
  ELSE IF peerid > st.d.maxid \/ ~st.peer[peerid].known
    THEN [st EXCEPT !.d.exited = TRUE]
  ELSE [st EXCEPT !.peer[peerid].fd = fd, !.fds[fd].lid = peerid,
                  !.dropped = st.dropped \ {peerid}]

\* "quit": the connection is closed and leaves the loop, the peer is marked
\* as not connected
KQuit(st, fd) ==
  LET lid == st.fds[fd].lid
      s1 == rm_rfd([st EXCEPT !.open = st.open \ {fd}], fd)
  IN IF lid >= 0 THEN [s1 EXCEPT !.peer[lid].fd = -1] ELSE s1

\* "id <lid> ...": ignored by home; else a peer not known yet is entered
KId(st, lid) ==
  IF st.d.mylid = 0 THEN st
  ELSE IF st.peer[lid].known THEN st
  ELSE [st EXCEPT !.peer[lid] = KnownPeer(-1),
                  !.d.peers = IF lid # st.d.mylid THEN st.d.peers + 1 ELSE st.d.peers,
                  !.d.maxid = IF lid > st.d.maxid THEN lid ELSE st.d.maxid]

\* "phase <phaseid>": ignored by home
KPhase(st, phase) ==
  IF st.d.mylid = 0 THEN st
  ELSE [st EXCEPT !.d.phase = phase, !.d.exit = 1]

\* "allowsend <count> <elemsize>" from peer lid
KAllowsend(st, lid, count) ==
  [st EXCEPT !.peer[lid].scount = count, !.d.exit = 1]

\* "data ...": got_data ignores it without credit; else the element is
\* stored and the loop is left when it was the last one expected
KData(st, lid) ==
  LET p == st.peer[lid]
  IN IF p.rcount = 0 \/ p.rcount = p.roff THEN st
     ELSE [st EXCEPT !.peer[lid].roff = p.roff + 1,
                     !.d.exit = IF p.roff + 1 = p.rcount THEN 1 ELSE st.d.exit]

\* the answer to an interactive command goes to the peer, or to the
\* descriptor if it has no lid
Answer(st, fd) ==
  SendCmd(st, IF st.fds[fd].lid = -1 THEN -fd ELSE st.fds[fd].lid)

\* msg[0], the first character of a command line
Msg0(c) ==
  CASE c.verb \in {"register", "resize", "remove"} -> "r"
    [] c.verb = "myid" -> "m"
    [] c.verb = "help" -> "h"
    [] c.verb = "kill" -> "k"
    [] c.verb = "quit" -> "q"
    [] c.verb = "status" -> "s"
    [] c.verb = "id" -> "i"
    [] c.verb = "phase" -> "p"
    [] c.verb = "allowsend" -> "a"
    [] c.verb \in {"data", "done"} -> "d"
    [] OTHER -> c.verb

\* the branch of got_cmd that takes a line from a descriptor tagged lid:
\* the tests on msg[0] in their order, with the test lid < 0 among them
Handler(lid, c) ==
  CASE Msg0(c) = "r" -> "register"
    [] Msg0(c) = "m" -> "myid"
    [] Msg0(c) = "h" -> "help"
    [] Msg0(c) = "k" -> "kill"
    [] Msg0(c) = "q" -> "quit"
    [] Msg0(c) = "#" -> "comment"
    [] Msg0(c) = "s" -> "status"
    [] OTHER ->
         IF lid < 0 THEN "no id"
         ELSE CASE Msg0(c) = "i" -> "id"
                [] Msg0(c) = "p" -> "phase"
                [] Msg0(c) = "a" -> "allowsend"
                [] Msg0(c) = "d" -> "data"
                [] OTHER -> "unknown"

\* got_cmd(d, fd, msg, len), in the order of its tests on msg[0]; the
\* register and data handlers return when sscanf does not find their fields
got_cmd(st, fd, c) ==
  LET lid == st.fds[fd].lid
      h == Handler(lid, c)
  IN CASE h = "register" -> IF c.verb = "register" THEN KRegister(st, fd) ELSE st
       [] h = "myid" -> KMyid(st, fd, c.peerid)
       [] h = "help" -> Answer(st, fd)
       [] h = "kill" -> [Answer(st, fd) EXCEPT !.d.exited = TRUE]
       [] h = "quit" -> KQuit(st, fd)
       [] h = "comment" -> st
       [] h = "status" -> Answer(st, fd)
       [] h = "no id" -> SendCmd(st, -fd)
       [] h = "id" -> KId(st, c.lid)
       [] h = "phase" -> KPhase(st, c.phase)
       [] h = "allowsend" -> KAllowsend(st, lid, c.count)
       [] h = "data" -> IF c.verb = "data" THEN KData(st, lid) ELSE st
       [] OTHER -> st

\* got_cmd, with the note of the first command received on the descriptor
Handled(st, fd, c) ==
  LET s2 == got_cmd(st, fd, c)
  IN [s2 EXCEPT !.fds[fd].recv1 =
        IF st.fds[fd].recv1 # -2 THEN @
        ELSE IF c.verb = "myid" THEN c.peerid ELSE -1]

\* the handlers' state becomes the state of the process
CommitState(st, kind, fd, lid, c) ==
  /\ kd' = st.d
  /\ kpeer' = st.peer
  /\ kfds' = st.fds
  /\ kopen' = st.open
  /\ kbad' = st.bad
  /\ kdropped' = st.dropped
  /\ klast' = [kind |-> kind, fd |-> fd, lid |-> lid, cmd |-> c,
               dialed |-> st.dialed, wasDropped |-> lid \in kdropped,
               handler |-> IF kind = "cmd" THEN Handler(lid, c) ELSE "none"]
  /\ kn' = kn + 1

\* the same for an event outside run_loop's rounds
Commit(st, kind, fd, lid, c) ==
  /\ CommitState(st, kind, fd, lid, c)
  /\ UNCHANGED <<kpc, kready, kint>>

Running == ~kd.exited /\ kn < MaxEvents /\ kpc = "none"

\* a command line arrives on a descriptor of the event loop
KGotCmd ==
  /\ Frame("conn")
  /\ Running
  /\ \E fd \in FDs : \E c \in Commands :
       /\ kfds[fd].cb
       /\ c.verb = "register" => kd.maxid < MaxLid
       /\ c.verb = "allowsend" => (kfds[fd].lid >= 0 => kpeer[kfds[fd].lid].scount = 0)
       /\ Commit(Handled(KState, fd, c), "cmd", fd, kfds[fd].lid, c)

\* got_bytes with read() = 0: the other side closed the connection; the
\* descriptor is closed and removed from the loop
KClosed ==
  /\ Frame("conn")
  /\ Running
  /\ \E fd \in FDs :
       /\ kfds[fd].cb
       /\ LET lid == kfds[fd].lid
              s1 == rm_rfd([KState EXCEPT !.open = kopen \ {fd}], fd)
              s2 == IF lid >= 0 THEN [s1 EXCEPT !.dropped = kdropped \cup {lid}] ELSE s1
          IN Commit(s2, "closed", fd, lid, [verb |-> "none"])

\* got_connect: a connection is accepted and greeted
KConnect ==
  /\ Frame("conn")
  /\ Running
  /\ FDs \ kopen # {}
  /\ LET fd == NewFd(KState)
         s1 == add_rfd([KState EXCEPT !.open = kopen \cup {fd}], fd)
         s2 == [s1 EXCEPT !.fds[fd].how = "accepted"]
     IN Commit(SendCmd(s2, -fd), "connect", fd, -1, [verb |-> "none"])

\* the process sends a command to a known peer (allowsend, data, phase)
KSend ==
  /\ Frame("conn")
  /\ Running
  /\ \E lid \in Lids :
       /\ lid # kd.mylid
       /\ kpeer[lid].known
       /\ Commit(SendCmd(KState, lid), "send", kpeer[lid].fd, lid, [verb |-> "none"])

NextConn ==
  \/ KGotCmd
  \/ KClosed
  \/ KConnect
  \/ KSend

SpecConn == InitConn /\ [][NextConn]_vars

(***************************************************************************)
(* Properties of the TCP2 connections                                      *)
(***************************************************************************)
\* what C17 says of the closed connection itself: the descriptor has left
\* the loop and the peer's entry is kept
ClosedLeavesLoop ==
  klast.kind = "closed" =>
    /\ ~kfds[klast.fd].cb
    /\ klast.lid >= 0 => kpeer[klast.lid].known

\* C17: when the connection to a peer was closed by the other side, the
\* descriptor leaves the event loop, the peer's entry is kept, and the next
\* send_cmd to the peer connects again before it writes: no command is
\* written to a closed descriptor.
DropThenRedial ==
  /\ ClosedLeavesLoop
  /\ (klast.kind = "send" /\ klast.wasDropped) => klast.dialed
  /\ ~kbad

\* the step handles command c, received on descriptor fd from sender lid
HandlesCmd == klast'.kind = "cmd" /\ kn' = kn + 1

\* the step changes none of maxid, the peer count, the peer table with its
\* credit fields and the phase, and the descriptor stays in the event loop
KeepsState ==
  /\ kd'.maxid = kd.maxid
  /\ kd'.peers = kd.peers
  /\ kd'.phase = kd.phase
  /\ kpeer' = kpeer
  /\ kfds'[klast'.fd].cb

\* a register from a descriptor with lid, a register at a process that is
\* not home, or an unknown verb from a registered peer
ErrorCmd(c, lid) ==
  \/ c.verb = "register" /\ lid >= 0
  \/ c.verb = "register" /\ kd.mylid # 0
  \/ c.verb = "x" /\ lid >= 0

\* the commands got_cmd handles for a descriptor without lid
Interactive == {"help", "kill", "quit", "status", "#"}

OnlyHomeOriginates ==
  [][(HandlesCmd /\ klast'.cmd.verb \in {"id", "phase"}
        /\ (kd.mylid = 0 \/ klast'.lid # 0))
       => /\ kd'.mylid = kd.mylid
          /\ kd'.maxid = kd.maxid
          /\ kd'.peers = kd.peers
          /\ kd'.phase = kd.phase
          /\ kpeer' = kpeer]_vars

\* the part of C19 the code meets: home ignores id and phase
HomeIgnoresIdPhase ==
  [][(HandlesCmd /\ klast'.cmd.verb \in {"id", "phase"} /\ kd.mylid = 0)
       => (kd' = kd /\ kpeer' = kpeer)]_vars

(***************************************************************************)
(* run_loop of the TCP2 backend: rounds of select, with the callbacks of   *)
(* all ready descriptors handled in each round                             *)
(***************************************************************************)
\* the event on descriptor fd ends the loop as the program intends: a
\* registration was accepted, a phase or an allowsend was taken from a
\* registered peer, or the last expected element of a receive was stored
Interesting(st, st2, fd, c) ==
  LET lid == st.fds[fd].lid
  IN \/ c.verb = "register" /\ st2.d.maxid > st.d.maxid
     \/ c.verb = "phase" /\ lid >= 0 /\ st.d.mylid # 0
     \/ c.verb = "allowsend" /\ lid >= 0
     \/ /\ c.verb = "data" /\ lid >= 0
        /\ st2.peer[lid].roff > st.peer[lid].roff
        /\ st2.peer[lid].roff = st2.peer[lid].rcount

\* run_loop is called, by the bootstrap or by a send or receive that waits;
\* a receive has posted its element count before
RunLoopEnter ==
  /\ Frame("conn")
  /\ kpc \in {"none", "returned"}
  /\ ~kd.exited
  /\ kn < MaxEvents
  /\ \E lid \in Lids : \E n \in 0 .. 2 :
       /\ lid # kd.mylid /\ kpeer[lid].known
       /\ kpeer' = [kpeer EXCEPT ![lid].rcount = n, ![lid].roff = 0]
  /\ kd' = [kd EXCEPT !.exit = 0]
  /\ kpc' = "select"
  /\ kint' = -1
  /\ kready' = {}
  /\ UNCHANGED <<kfds, kopen, kbad, kdropped, klast, kn>>

CanReturnEarly == kd.exit # 0
\* the for loop over the ready descriptors is finished and d->exit is set
CanReturn == kready = {} /\ kd.exit # 0

\* select reports some descriptors of the read set as ready, at the first
\* round or after a round that has not set d->exit
RunLoopSelect ==
  /\ Frame("conn")
  /\ kpc = "select" \/ (kpc = "round" /\ kready = {} /\ kd.exit = 0)
  /\ ~kd.exited
  /\ kn < MaxEvents
  /\ \E ready \in SUBSET {fd \in FDs : kfds[fd].cb} :
       /\ ready # {}
       /\ kready' = ready
  /\ kpc' = "round"
  /\ UNCHANGED <<kd, kpeer, kfds, kopen, kbad, kdropped, klast, kn, kint>>

\* the callback of the lowest ready descriptor not handled yet: got_bytes
\* finds the connection closed, or passes one command to got_cmd
RunLoopHandle ==
  /\ Frame("conn")
  /\ kpc = "round"
  /\ kready # {}
  /\ ~kd.exited
  /\ LET fd == CHOOSE f \in kready : \A g \in kready : f <= g
         lid == kfds[fd].lid
     IN /\ kready' = kready \ {fd}
        /\ \/ /\ CommitState(rm_rfd([KState EXCEPT !.open = kopen \ {fd}], fd),
                             "closed", fd, lid, [verb |-> "none"])
              /\ kint' = kint
           \/ \E c \in Commands :
                /\ c.verb = "register" => kd.maxid < MaxLid
                /\ c.verb = "allowsend" => (lid >= 0 => kpeer[lid].scount = 0)
                /\ LET st2 == Handled(KState, fd, c)
                   IN /\ CommitState(st2, "cmd", fd, lid, c)
                      /\ kint' = IF kint = -1 /\ Interesting(KState, st2, fd, c)
                                   THEN fd ELSE kint
  /\ kpc' = "round"

\* run_loop returns
RunLoopReturn ==
  /\ Frame("conn")
  /\ kpc = "round"
  /\ CanReturn
  /\ ~kd.exited
  /\ kpc' = "returned"
  /\ UNCHANGED <<kd, kpeer, kfds, kopen, kbad, kdropped, klast, kn, kready, kint>>

NextLoop ==
  \/ RunLoopEnter
  \/ RunLoopSelect
  \/ RunLoopHandle
  \/ RunLoopReturn

SpecLoop == InitConn /\ [][NextLoop]_vars

\* C21: run_loop returns only when an event that ends the loop was handled
\* since it was called and every descriptor ready in the same round has been
\* handled; a round without such an event is followed by another select.
ReturnAfterInterestingEvent ==
  /\ kpc = "returned" => (kint # -1 /\ kready = {})
  /\ (kpc = "round" /\ kd.exit = 0) => kint = -1
  /\ (kpc \in {"round", "returned"} /\ kint # -1) => kd.exit # 0

\* run_loop has returned after a round in which the event that ends the
\* loop was followed by a command on a further ready descriptor
WitnessReturnAfterInterestingEvent ==
  /\ kpc = "returned"
  /\ klast.kind = "cmd"
  /\ klast.fd > kint
  /\ kint # -1

\* C22: the first command written on every connection the process has
\* dialled is myid; and on an accepted connection whose first command was
\* the myid of another process, every later allowsend or data is handled
\* as coming from that lid, never as from an unknown sender.
MyidFirstOnConnection ==
  /\ [](\A fd \in FDs : kfds[fd].how = "dialed" => kfds[fd].sent = "myid")
  /\ [][(/\ HandlesCmd
         /\ klast'.cmd.verb \in {"allowsend", "data"}
         /\ kfds[klast'.fd].how = "accepted"
         /\ kfds[klast'.fd].recv1 >= 0
         /\ kfds[klast'.fd].recv1 # kd.mylid)
        => klast'.lid = kfds[klast'.fd].recv1]_vars

\* peer 2 has connected and sent myid 2, and its allowsend was taken as
\* credit of peer 2
WitnessMyidFirstOnConnection ==
  /\ klast.kind = "cmd"
  /\ klast.cmd.verb = "allowsend"
  /\ klast.lid = 2
  /\ kfds[klast.fd].how = "accepted"
  /\ kfds[klast.fd].recv1 = 2
  /\ kpeer[2].scount = 2

\* the data commands among the commands q, in order
DataOf(q) == SelectSeq(q, LAMBDA m : m.type = "data")

\* C23: the data commands in flight from s to r are the next elements r
\* expects, one per element and in order: command number i carries the tag
\* (roff + i - 1 : index) and the value s holds at that index, the first of
\* them at r's own cursor ridx; no position, element size or element count
\* assertion fails; and every element r has stored sits at the global index
\* it was read from at its sender, inside a slice s had to send to r.
ElementsKeepTheirIndex ==
  /\ \A p \in Procs : failed[p] \notin {"got_data", "ecount", "inTraversal"}
  /\ \A s \in Procs : \A r \in Procs \ {s} :
       LET q == DataOf(chan[s][r])
           pr == peer[r][s]
       IN /\ \A i \in 1 .. Len(q) :
               /\ q[i].tag[1] = pr.roff + i - 1
               /\ q[i].val = FromVal(s, q[i].tag[2])
               /\ q[i].tag[2] \in SliceIdx(pr.rslc)
               /\ i > 1 => LexLess(q[i - 1].tag[2], q[i].tag[2], pr.rslc.dims)
          /\ Len(q) > 0 => (q[1].tag[2] = pr.ridx /\ Len(q) = pr.rcount - pr.roff)
  /\ \A r \in Procs : \A idx \in DOMAIN toMem[r] :
       toMem[r][idx] # <<>> =>
         \E t \in trans : t.to = r /\ idx \in SliceIdx(t.slc)
                          /\ toMem[r][idx] = FromVal(t.from, idx)

\* a block of four elements in more than one dimension has arrived whole
WitnessElementsKeepTheirIndex ==
  /\ AllReturned
  /\ \E t \in trans :
       /\ laik_slice_size(t.slc) = 4
       /\ t.slc.dims > 1
       /\ \A idx \in SliceIdx(t.slc) : toMem[t.to][idx] = FromVal(t.from, idx)


\* ======================================================================
\* UCP backend, TCP side channel: resize of a running instance
\* (src/backends/ucp/tcp.c)
\* ======================================================================

\* processes of the instance at start-up; LID 0 is home (master)
UOld == 1
\* processes that may join later
MaxNew == 2
\* calls of tcp_add_new_peers by every process
MaxResize == 2

UProcs == 0 .. (UOld + MaxNew - 1)

\* the UCP worker address of a process (d->address, d->addrlen)
Addr(p) == 100 + p

\* the addresses peer[from] .. peer[to - 1] of a table, as they are written
PeerRange(tab, from, to) == SubSeq(tab, from + 1, to)

InitUcp ==
  /\ Idle("ucp")
  /\ uinst = [p \in UProcs |->
       IF p < UOld
       THEN [mylid |-> p, world_size |-> UOld,
             peer |-> [i \in 1 .. UOld |-> Addr(i - 1)], phase |-> 0,
             epoch |-> 0, pc |-> "run", ret |-> -1, n |-> 0,
             old |-> UOld, opeer |-> [i \in 1 .. UOld |-> Addr(i - 1)],
             round |-> 0, rm |-> {}, rmret |-> -1]
       ELSE [mylid |-> -1, world_size |-> 0, peer |-> <<>>, phase |-> 0,
             epoch |-> 0, pc |-> "start", ret |-> -1, n |-> 0,
             old |-> 0, opeer |-> <<>>, round |-> 0, rm |-> {}, rmret |-> -1]]
  /\ ufds = [i \in 1 .. UOld |-> i - 1]
  /\ ubacklog = <<>>
  /\ uto = [p \in UProcs |-> <<>>]
  /\ ufrom = [p \in UProcs |-> <<>>]
  /\ uleft = {}

\* tcp_initialize_setup_connection of a process started later: the port is
\* taken, so it connects to home and writes its address
tcp_initialize_setup_connection(p) ==
  /\ Frame("ucp")
  /\ \/ /\ uinst[p].pc = "start"
        /\ uinst' = [uinst EXCEPT ![p].pc = "connected"]
        /\ ubacklog' = Append(ubacklog, p)
        /\ UNCHANGED ufrom
     \/ /\ uinst[p].pc = "connected"
        /\ uinst' = [uinst EXCEPT ![p].pc = "wait"]
        /\ ufrom' = [ufrom EXCEPT ![p] = Append(@, Addr(p))]
        /\ UNCHANGED ubacklog
  /\ UNCHANGED <<ufds, uto, uleft>>

\* receive_instance_data: mylid, world_size, phase, epoch, then the
\* addresses of world_size peers; read() blocks until the bytes are there
receive_instance_data(p) ==
  LET s == uto[p] IN
  /\ Frame("ucp")
  /\ uinst[p].pc = "wait"
  /\ Len(s) >= 4
  /\ Len(s) >= 4 + s[2]
  /\ uinst' = [uinst EXCEPT ![p].mylid = s[1], ![p].world_size = s[2],
                            ![p].phase = s[3], ![p].epoch = s[4],
                            ![p].peer = SubSeq(s, 5, 4 + s[2]),
                            ![p].pc = "initnew"]
  /\ uto' = [uto EXCEPT ![p] = SubSeq(s, 5 + s[2], Len(s))]
  /\ UNCHANGED <<ufds, ubacklog, ufrom, uleft>>

\* tcp_initialize_new_peers: the new world size, then the addresses of the
\* peers old_world_size .. world_size - 1
tcp_initialize_new_peers(p) ==
  LET s == uto[p]
      old_world_size == uinst[p].world_size IN
  /\ Frame("ucp")
  /\ uinst[p].pc = "initnew"
  /\ Len(s) >= 1
  /\ Len(s) >= 1 + (s[1] - old_world_size)
  /\ uinst' = [uinst EXCEPT ![p].world_size = s[1],
                 ![p].peer = @ \o SubSeq(s, 2, 1 + (s[1] - old_world_size)),
                 ![p].ret = s[1] - old_world_size,
                 ![p].old = old_world_size, ![p].opeer = uinst[p].peer,
                 ![p].round = uinst[p].phase + 1,
                 ![p].pc = "run"]
  /\ uto' = [uto EXCEPT ![p] = SubSeq(s, 2 + (s[1] - old_world_size), Len(s))]
  /\ UNCHANGED <<ufds, ubacklog, ufrom, uleft>>

\* tcp_add_new_peers: dispatch on d->mylid == 0
tcp_add_new_peers(p) ==
  /\ Frame("ucp")
  /\ uinst[p].pc = "run"
  /\ uinst[p].round < MaxResize
  /\ uinst' = [uinst EXCEPT ![p].old = uinst[p].world_size,
                            ![p].opeer = uinst[p].peer,
                            ![p].pc = IF uinst[p].mylid = 0 THEN "poll" ELSE "readn"]
  /\ UNCHANGED <<ufds, ubacklog, uto, ufrom, uleft>>

\* as MasterWrites below, but the newcomers are numbered from the end
MasterWritesReversed(d, i) ==
  IF i + 1 > d.old
  THEN <<d.world_size - 1 - (i - d.old), d.old, d.phase, d.epoch>>
       \o PeerRange(d.peer, 0, d.old)
       \o <<d.world_size>> \o PeerRange(d.peer, d.old, d.world_size)
  ELSE IF i >= 1 THEN PeerRange(d.peer, d.old, d.world_size) ELSE <<>>

\* what home writes to the process behind fds[i] once the newcomers'
\* addresses are known (lines 300-331)
MasterWrites(d, i) ==
  IF i + 1 > d.old
  THEN <<i, d.old, d.phase, d.epoch>> \o PeerRange(d.peer, 0, d.old)
       \o <<d.world_size>> \o PeerRange(d.peer, d.old, d.world_size)
  ELSE IF i >= 1 THEN PeerRange(d.peer, d.old, d.world_size) ELSE <<>>

\* a write to a process that is gone may raise SIGPIPE
Sigpipe(targets) ==
  IF \E i \in targets : ufds[i + 1] \in uleft THEN BOOLEAN ELSE {FALSE}

add_new_peers_master ==
  LET d == uinst[0]
      number_new_connections == d.world_size - d.old IN
  /\ Frame("ucp")
  /\ \/ \* poll() reports a connection: accept it
        /\ d.pc = "poll"
        /\ ubacklog # <<>>
        /\ ufds' = Append(ufds, Head(ubacklog))
        /\ ubacklog' = Tail(ubacklog)
        /\ uinst' = [uinst EXCEPT ![0].world_size = @ + 1]
        /\ UNCHANGED <<uto, ufrom>>
     \/ \* poll() reports nothing more: tell the old peers how many came
        /\ d.pc = "poll"
        /\ ubacklog = <<>>
        /\ \E killed \in Sigpipe(1 .. (d.old - 1)) :
             /\ uto' = [q \in UProcs |->
                  IF \E i \in 1 .. (d.old - 1) : ufds[i + 1] = q /\ q \notin uleft
                  THEN Append(uto[q], number_new_connections) ELSE uto[q]]
             /\ uinst' = [uinst EXCEPT
                  ![0].pc = IF killed THEN "killed"
                            ELSE IF number_new_connections = 0 THEN "run"
                            ELSE "readaddr",
                  ![0].ret = IF ~killed /\ number_new_connections = 0 THEN 0 ELSE @,
                  ![0].round = IF ~killed /\ number_new_connections = 0
                               THEN @ + 1 ELSE @,
                  ![0].phase = IF ~killed /\ number_new_connections = 0
                               THEN @ + 1 ELSE @]
        /\ UNCHANGED <<ufds, ubacklog, ufrom>>
     \/ \* read the newcomers' addresses, then write to everybody
        /\ d.pc = "readaddr"
        /\ \A i \in d.old .. (d.world_size - 1) : ufrom[ufds[i + 1]] # <<>>
        /\ LET newpeer == d.peer \o [j \in 1 .. number_new_connections |->
                                    Head(ufrom[ufds[d.old + j]])]
               dd == [d EXCEPT !.peer = newpeer] IN
           \E killed \in Sigpipe(1 .. (d.old - 1)) :
             /\ ufrom' = [q \in UProcs |->
                  IF \E i \in d.old .. (d.world_size - 1) : ufds[i + 1] = q
                  THEN Tail(ufrom[q]) ELSE ufrom[q]]
             /\ uto' = [q \in UProcs |->
                  IF q \notin uleft /\ \E i \in 1 .. (d.world_size - 1) : ufds[i + 1] = q
                  THEN uto[q] \o MasterWrites(dd,
                         CHOOSE i \in 1 .. (d.world_size - 1) : ufds[i + 1] = q)
                  ELSE uto[q]]
             /\ uinst' = [uinst EXCEPT ![0] =
                  IF killed THEN [dd EXCEPT !.pc = "killed"]
                  ELSE [dd EXCEPT !.pc = "run", !.ret = number_new_connections,
                                  !.round = @ + 1, !.phase = @ + 1]]
        /\ UNCHANGED <<ufds, ubacklog>>
  /\ UNCHANGED uleft

add_new_peers_non_master(p) ==
  LET d == uinst[p]
      s == uto[p] IN
  /\ Frame("ucp")
  /\ \/ \* read number_new_connections
        /\ d.pc = "readn"
        /\ s # <<>>
        /\ uto' = [uto EXCEPT ![p] = Tail(s)]
        /\ uinst' = [uinst EXCEPT ![p] =
             IF Head(s) > 0
             THEN [d EXCEPT !.n = Head(s), !.world_size = @ + Head(s),
                            !.pc = "readnew"]
             ELSE [d EXCEPT !.ret = Head(s), !.pc = "run", !.round = @ + 1,
                            !.phase = @ + 1]]
     \/ \* read the addresses of the newcomers
        /\ d.pc = "readnew"
        /\ Len(s) >= d.n
        /\ uto' = [uto EXCEPT ![p] = SubSeq(s, d.n + 1, Len(s))]
        /\ uinst' = [uinst EXCEPT ![p] =
             [d EXCEPT !.peer = @ \o SubSeq(s, 1, d.n), !.ret = d.n,
                       !.pc = "run", !.round = @ + 1, !.phase = @ + 1]]
  /\ UNCHANGED <<ufds, ubacklog, ufrom, uleft>>

\* a process other than home leaves the instance and closes its sockets
UcpLeave(p) ==
  /\ Frame("ucp")
  /\ p # 0
  /\ uinst[p].pc = "run"
  /\ uinst' = [uinst EXCEPT ![p].pc = "left"]
  /\ uleft' = uleft \cup {uinst[p].mylid}
  /\ UNCHANGED <<ufds, ubacklog, uto, ufrom>>

\* tcp_remove_peer: ignores both arguments and returns 0
tcp_remove_peer(p) ==
  /\ Frame("ucp")
  /\ uinst[p].pc = "run"
  /\ uleft # {}
  /\ uinst[p].rm # uleft
  /\ uinst' = [uinst EXCEPT ![p].rm = uleft, ![p].rmret = 0]
  /\ UNCHANGED <<ufds, ubacklog, uto, ufrom, uleft>>

NextUcp ==
  \/ \E p \in UProcs : tcp_initialize_setup_connection(p)
  \/ \E p \in UProcs : receive_instance_data(p)
  \/ \E p \in UProcs : tcp_initialize_new_peers(p)
  \/ \E p \in UProcs : tcp_add_new_peers(p)
  \/ add_new_peers_master
  \/ \E p \in UProcs : add_new_peers_non_master(p)

SpecUcp == InitUcp /\ [][NextUcp]_vars

NextUcpLeave ==
  \/ NextUcp
  \/ \E p \in UProcs : UcpLeave(p)
  \/ \E p \in UProcs : tcp_remove_peer(p)

SpecUcpLeave == InitUcp /\ [][NextUcpLeave]_vars

\* C24: once a process has left and a remaining process has called
\* tcp_remove_peer, the world of the remaining process (peer[0 ..
\* world_size - 1], from which groups are built) no longer holds the
\* departed process.
DepartedLidRemoved ==
  \A p \in UProcs : \A l \in uinst[p].rm :
    uinst[p].pc = "run" =>
      \A i \in 1 .. uinst[p].world_size : uinst[p].peer[i] # Addr(ufds[l + 1])

MaxLifeOps == 3

\* group 0 is the world; group 1 is derived from it, group 2 from group 1
LGroups == 0 .. 2
Derived == LGroups \ {0}

\* MPI_COMM_WORLD; the communicator of a derived group g is CommWorld + g
CommWorld == 10

\* the action types a plan can hold (Laik_ActionType)
ActionTypes == {"LAIK_AT_Send", "LAIK_AT_Recv", "LAIK_AT_PackAndSend"}

\* laik_transplan_new: a plan without actions
laik_transplan_new == [action |-> <<>>]

\* laik_mpi_prepare returns the new plan as it is
laik_mpi_prepare == laik_transplan_new

\* laik_transplan_recordSend / recordRecv / recordPackAndSend append one action
laik_transplan_record(tp, type, rank) ==
  [tp EXCEPT !.action = Append(@, [type |-> type, peer_rank |-> rank])]

\* the plans handed to exec: none (NULL), the one of prepare, and plans
\* with one or two recorded actions
Plans ==
  {[isNull |-> TRUE, action |-> <<>>]}
  \cup {[isNull |-> FALSE, action |-> tp.action] : tp \in
         {laik_mpi_prepare}
         \cup {laik_transplan_record(laik_mpi_prepare, ty, 1) : ty \in ActionTypes}
         \cup {laik_transplan_record(
                 laik_transplan_record(laik_mpi_prepare, "LAIK_AT_Recv", 1), ty, 0)
               : ty \in ActionTypes}}

\* the transitions handed to exec: reductions, then receives and sends
LTransitions ==
  {[redCount |-> r, ops |-> o] : r \in 0 .. 1,
     o \in {<<>>, <<<<"MPI_Recv", 1>>>>, <<<<"MPI_Send", 1>>, <<"MPI_Recv", 1>>>>}}

InitLife ==
  /\ Idle("life")
  /\ \E didInit \in BOOLEAN :
       ld = [didInit |-> didInit, finalized |-> 0, stat |-> 0, written |-> 0]
  /\ \E member \in 0 .. 2 :
       lgroups = [g \in LGroups |->
         [parent |-> g - 1, size |-> 3 - g,
          myid |-> IF g <= member THEN 0 ELSE -1,
          backend_data |-> IF g = 0 THEN CommWorld ELSE 0,
          updates |-> 0]]
  /\ lcalls = <<>>
  /\ lfail = "none"
  /\ llast = [op |-> "init"]
  /\ ln = 0

LifeRunning == lfail = "none" /\ ln < MaxLifeOps

\* laik_mpi_finalize: MPI_Finalize if this backend called MPI_Init
laik_mpi_finalize ==
  /\ Frame("life")
  /\ LifeRunning
  /\ ld' = [ld EXCEPT !.finalized = IF ld.didInit THEN @ + 1 ELSE @]
  /\ lfail' = IF ld.didInit /\ ld.finalized > 0
              THEN "MPI_Finalize called twice" ELSE lfail
  /\ llast' = [op |-> "finalize"]
  /\ ln' = ln + 1
  /\ UNCHANGED <<lgroups, lcalls>>

\* as laik_mpi_updateGroup below, but the group data is not stored
updateGroupNoStore(g) ==
  /\ Frame("life")
  /\ LifeRunning
  /\ lgroups' = [lgroups EXCEPT ![g].updates = @ + 1]
  /\ lfail' = lfail
  /\ llast' = [op |-> "updateGroup", g |-> g]
  /\ ln' = ln + 1
  /\ UNCHANGED <<ld, lcalls>>

laik_mpi_updateGroup(g) ==
  LET grp == lgroups[g]
      up == [lgroups EXCEPT ![g].updates = @ + 1] IN
  /\ Frame("life")
  /\ LifeRunning
  /\ IF grp.parent < 0 \/ lgroups[grp.parent].size <= grp.size
     THEN lfail' = "assert(g->parent)" /\ lgroups' = up
     ELSE IF lgroups[grp.parent].myid < 0
     THEN lfail' = lfail /\ lgroups' = up
     ELSE IF lgroups[grp.parent].backend_data = 0
     THEN lfail' = "assert(gdParent)" /\ lgroups' = up
     ELSE IF grp.backend_data # 0
     THEN lfail' = "assert(gd == 0)" /\ lgroups' = up
     ELSE /\ lfail' = lfail
          \* MPI_Comm_split: MPI_COMM_NULL (-1) for MPI_UNDEFINED
          /\ lgroups' = [up EXCEPT ![g].backend_data =
                           IF grp.myid < 0 THEN -1 ELSE CommWorld + g]
  /\ llast' = [op |-> "updateGroup", g |-> g]
  /\ ln' = ln + 1
  /\ UNCHANGED <<ld, lcalls>>

\* exec_plan: the actions of the plan in order; only Send and Recv are known
exec_plan(tp, gd) ==
  LET bad == {i \in 1 .. Len(tp.action) :
                tp.action[i].type \notin {"LAIK_AT_Send", "LAIK_AT_Recv"}}
      n == IF bad = {} THEN Len(tp.action)
           ELSE (CHOOSE i \in bad : \A j \in bad : i <= j) - 1 IN
  IF gd = 0 THEN [calls |-> <<>>, fail |-> "assert(gd)"]
  ELSE [calls |-> [i \in 1 .. n |->
                     <<IF tp.action[i].type = "LAIK_AT_Send"
                       THEN "MPI_Send" ELSE "MPI_Recv",
                       tp.action[i].peer_rank, gd>>],
        fail |-> IF bad = {} THEN "none" ELSE "assert(0)"]

\* as mpi_exec below, but without the test of myid
mpi_exec_any(g, t, tp) ==
  IF ~tp.isNull /\ Len(tp.action) > 0
  THEN exec_plan(tp, lgroups[g].backend_data)
  ELSE IF lgroups[g].backend_data = 0 THEN [calls |-> <<>>, fail |-> "assert(gd)"]
  ELSE [calls |-> [i \in 1 .. t.redCount |->
                     <<"MPI_Reduce", i, lgroups[g].backend_data>>]
                  \o [i \in 1 .. Len(t.ops) |->
                        <<t.ops[i][1], t.ops[i][2], lgroups[g].backend_data>>],
        fail |-> "none"]

\* laik_mpi_exec on a container whose active group is g
mpi_exec(g, t, tp) ==
  IF ~tp.isNull /\ Len(tp.action) > 0
  THEN exec_plan(tp, lgroups[g].backend_data)
  ELSE IF lgroups[g].myid < 0 THEN [calls |-> <<>>, fail |-> "none"]
  ELSE IF lgroups[g].backend_data = 0 THEN [calls |-> <<>>, fail |-> "assert(gd)"]
  ELSE [calls |-> [i \in 1 .. t.redCount |->
                     <<"MPI_Reduce", i, lgroups[g].backend_data>>]
                  \o [i \in 1 .. Len(t.ops) |->
                        <<t.ops[i][1], t.ops[i][2], lgroups[g].backend_data>>],
        fail |-> "none"]

\* the calls that store into a mapping or buffer of this process
Stores(calls) == {i \in 1 .. Len(calls) : calls[i][1] \in {"MPI_Recv", "MPI_Reduce"}}

\* the statistics of the container (d->stat) count every reduction, receive
\* and send of a call that came to its end
laik_mpi_exec(g, t, tp) ==
  LET r == mpi_exec(g, t, tp) IN
  /\ Frame("life")
  /\ LifeRunning
  /\ lcalls' = r.calls
  /\ lfail' = r.fail
  /\ ld' = [ld EXCEPT !.stat = IF r.fail = "none" THEN @ + Len(r.calls) ELSE @,
                      !.written = @ + Cardinality(Stores(r.calls))]
  /\ llast' = [op |-> "exec", g |-> g, t |-> t, tp |-> tp]
  /\ ln' = ln + 1
  /\ UNCHANGED lgroups

NextLife ==
  \/ laik_mpi_finalize
  \/ \E g \in Derived : laik_mpi_updateGroup(g)
  \/ \E g \in LGroups : \E t \in LTransitions : \E tp \in Plans :
       laik_mpi_exec(g, t, tp)

SpecLife == InitLife /\ [][NextLife]_vars

\* C26: MPI_Finalize is called at most once, however often the backend's
\* finalize is called.
FinalizeIdempotent == ld.finalized <= 1

\* C27: for a member of the parent group, updateGroup on a group that was
\* updated before fails 'must not be updated yet'; exec on a group with
\* myid >= 0 that was never updated fails the group-data assertion; exec on
\* a group updated exactly once uses the communicator updateGroup stored.
UpdateGroupStep(g) ==
  (/\ llast'.op = "updateGroup" /\ llast'.g = g /\ ln' = ln + 1
   /\ lgroups[lgroups[g].parent].myid >= 0
   /\ lgroups[g].updates >= 1)
  => lfail' = "assert(gd == 0)"

ExecStep(g) ==
  (/\ llast'.op = "exec" /\ llast'.g = g /\ ln' = ln + 1
   /\ llast'.tp.isNull
   /\ lgroups[g].myid >= 0)
  => /\ lgroups[g].updates = 0 => lfail' = "assert(gd)"
     /\ lgroups[g].updates = 1 =>
          /\ lfail' = "none"
          /\ lgroups[g].backend_data = CommWorld + g
          /\ \A i \in 1 .. Len(lcalls') : lcalls'[i][3] = CommWorld + g

UpdateGroupOnce ==
  [][\A g \in Derived : UpdateGroupStep(g) /\ ExecStep(g)]_vars

\* exec without a plan on a derived group that was updated once made MPI calls
WitnessUpdateGroupOnce ==
  /\ llast.op = "exec"
  /\ llast.g = 2
  /\ llast.tp.isNull
  /\ lgroups[2].updates = 1
  /\ lgroups[2].myid >= 0
  /\ Len(lcalls) = 3
  /\ lfail = "none"

\* C28: exec with the plan of prepare makes the MPI calls exec makes with
\* no plan; exec with a plan of recorded actions makes exactly one MPI call
\* per recorded action, in recorded order, and fails no assertion.
PlanCalls(tp, gd) ==
  [i \in 1 .. Len(tp.action) |-> <<tp.action[i].type, tp.action[i].peer_rank, gd>>]

CallKind(c) ==
  <<IF c[1] = "MPI_Send" THEN "LAIK_AT_Send"
    ELSE IF c[1] = "MPI_Recv" THEN "LAIK_AT_Recv" ELSE c[1], c[2], c[3]>>

PrepareOptional ==
  llast.op = "exec" =>
    /\ (~llast.tp.isNull /\ llast.tp.action = laik_mpi_prepare.action) =>
         /\ lcalls = mpi_exec(llast.g, llast.t, [isNull |-> TRUE, action |-> <<>>]).calls
         /\ lfail = mpi_exec(llast.g, llast.t, [isNull |-> TRUE, action |-> <<>>]).fail
    /\ (/\ ~llast.tp.isNull /\ Len(llast.tp.action) > 0
        /\ lgroups[llast.g].backend_data # 0) =>
         /\ lfail = "none"
         /\ [i \in 1 .. Len(lcalls) |-> CallKind(lcalls[i])]
              = PlanCalls(llast.tp, lgroups[llast.g].backend_data)

\* C29: a resize, remove or done line is not taken by the register handler
\* or by the data handler.
OwnHandler ==
  (klast.kind = "cmd" /\ klast.cmd.verb \in {"resize", "remove", "done"})
    => klast.handler \notin {"register", "data"}

\* ----------------------------------------------------------------------
\* A peer that has left laik_init_tcp2 dials another process
\* ----------------------------------------------------------------------

\* p has returned from laik_init_tcp2 and sends to q: ensure_conn connects
\* to the host and port of q in p's table and writes "myid <mylid>"; q, in
\* its event loop, accepts the connection and got_cmd takes the line (the
\* tagging of the descriptor is in KMyid)
got_myid(q, p) ==
  LET d == inst[q]
      peerid == inst[p].mylid IN
  /\ Frame("boot")
  /\ bpc[p] = "returned"
  \* home has a connection to every registered peer and never dials
  /\ inst[p].mylid # 0
  /\ \E l \in DOMAIN inst[p].peer \ {0} :
       /\ l # inst[p].mylid
       /\ inst[p].peer[l].known
       /\ inst[p].peer[l].port = d.listenport
  /\ bpc[q] = "reg_wait"
  /\ fdlid' = fdlid
  /\ IF d.mylid = peerid
       THEN UNCHANGED <<bfailed, bpc>>
       ELSE IF peerid < 0 \/ peerid > d.maxid \/ ~d.peer[peerid].known
         THEN /\ bfailed' = [bfailed EXCEPT ![q] = "myid"]
              /\ bpc' = [bpc EXCEPT ![q] = "abort"]
         ELSE UNCHANGED <<bfailed, bpc>>
  /\ UNCHANGED <<hostlen, inst, world_size, listener, bound, toHome,
                 fromHome, regs, idlog>>

NextBootMyid ==
  \/ NextBoot
  \/ \E q \in BProcs : \E p \in BProcs \ {q} : got_myid(q, p)

SpecBootMyid == InitBoot /\ [][NextBootMyid]_vars

\* C30: no process fails an assertion of the myid handler: the peer a myid
\* line announces is known to the receiver when the line is handled.
MyidPeerKnown == \A q \in BProcs : bfailed[q] # "myid"

\* C31: when the other side closes the connection, the assertion
\* rbuf_used == 0 of got_bytes holds, whatever the buffer holds.
CloseEmptiesBuffer == fstate # "assert(rbuf_used == 0)"

\* C32: once quit has removed the descriptor and freed its buffer, no
\* further line is passed to got_cmd from that buffer and rbuf_used of the
\* descriptor is not written.
NoUseAfterQuit == fnote.after = <<>> /\ ~fnote.wrote

\* C33: rbuf_used stays within 0 .. RBUF_LEN and the buffer keeps its size
\* (no read writes behind it); only complete lines of the stream are passed
\* to got_cmd; with a full buffer the next got_bytes is a panic that passes
\* nothing to got_cmd.
BufferInBounds ==
  /\ fused \in 0 .. RBUF_LEN
  /\ Len(frbuf) = RBUF_LEN
  /\ LET all == SplitLines(fstream, <<>>, <<>>).lines
     IN Len(fcmds) <= Len(all) /\ fcmds = SubSeq(all, 1, Len(fcmds))
  /\ fstate = "panic" =>
       /\ fused = RBUF_LEN
       /\ \A k \in 1 .. RBUF_LEN : frbuf[k] # "NL"

FullBufferPanics ==
  (fstate = "open" /\ fused = RBUF_LEN)
    => (fstate' = "panic" /\ fcmds' = fcmds /\ fused' = fused)

BufferBounded == []BufferInBounds /\ [][FullBufferPanics]_vars

\* a line longer than the buffer has filled it and the process has panicked
WitnessBufferBounded ==
  /\ fstate = "panic"
  /\ fused = RBUF_LEN
  /\ fpos = RBUF_LEN + 1

\* C34: in the phase loop of laik_mpi_exec every send and every receive of
\* the transition is executed in exactly one phase, of the first sweep if
\* the data goes from the lower to the higher rank and of the second sweep
\* otherwise; within a phase no send precedes a receive; operations with
\* the same peer keep their list order; and every message is received by
\* the receive with the same position among those of its pair of tasks.
PhasesOf(p, op) ==
  {ph \in 0 .. (2 * MCount - 1) :
     IF op.type = "send" THEN SendInPhase(ph, p, op.peer)
     ELSE RecvInPhase(ph, p, op.peer)}

SweepSchedule ==
  \A p \in MTasks :
    LET sched == Schedule(p)
        ops == [ph \in 0 .. (2 * MCount - 1) |-> PhaseOps(p, ph)]
    IN /\ Len(sched) = Len(msend[p]) + Len(mrecv[p])
       /\ \A i \in 1 .. Len(msend[p]) :
            /\ Cardinality(PhasesOf(p, msend[p][i])) = 1
            /\ \A ph \in PhasesOf(p, msend[p][i]) :
                 ph < MCount <=> p < msend[p][i].peer
       /\ \A i \in 1 .. Len(mrecv[p]) :
            /\ Cardinality(PhasesOf(p, mrecv[p][i])) = 1
            /\ \A ph \in PhasesOf(p, mrecv[p][i]) :
                 ph < MCount <=> mrecv[p][i].peer < p
       /\ \A ph \in 0 .. (2 * MCount - 1) :
            \A i \in 1 .. Len(ops[ph]) : \A j \in 1 .. Len(ops[ph]) :
              (i < j /\ ops[ph][i].type = "send") => ops[ph][j].type = "send"
       /\ \A i \in 1 .. Len(sched) : \A j \in 1 .. Len(sched) :
            (/\ i < j
             /\ sched[i].type = sched[j].type
             /\ sched[i].peer = sched[j].peer)
              => sched[i].slc < sched[j].slc
       /\ \A k \in 1 .. Len(mgot[p]) : mgot[p][k][2] = mgot[p][k][3]

\* every task has received MaxOps messages from a lower and MaxOps from a
\* higher task, and all have returned
WitnessSweepSchedule ==
  /\ MpiAllReturned
  /\ \E p \in MTasks : \E lo \in MTasks : \E hi \in MTasks :
       /\ lo < p /\ p < hi
       /\ Cardinality({k \in 1 .. Len(mgot[p]) : mgot[p][k][1] = lo}) = MaxOps
       /\ Cardinality({k \in 1 .. Len(mgot[p]) : mgot[p][k][1] = hi}) = MaxOps

\* ----------------------------------------------------------------------
\* Point-to-point backend: exec_reduce, on the groups, buffers and
\* channels of the manual reduction above (from: the mapping a->fromMapNo
\* of fromList, to: the mapping a->toMapNo of toList, the same memory if
\* ralias)
\* ----------------------------------------------------------------------

\* a process that is not the reduce process: send_slice of its input if it
\* is in the input group, then recv_slice of the result with LAIK_RO_None if
\* it is in the output group
exec_reduce_other(p) ==
  /\ Frame("red")
  /\ p # reduceTask
  /\ \/ /\ rpc[p] = "start"
        /\ rchan' = [rchan EXCEPT ![p] = IF InGroup(rgrp.in, p)
                                           THEN Append(@, rbuf[p].from) ELSE @]
        /\ rpc' = [rpc EXCEPT ![p] = IF InGroup(rgrp.out, p) THEN "wait" ELSE "done"]
        /\ UNCHANGED <<rbuf, rres>>
     \/ /\ rpc[p] = "wait"
        /\ rres[p] # <<>>
        /\ rbuf' = [rbuf EXCEPT ![p] = WriteTo(@, ralias[p], Head(rres[p]))]
        /\ rres' = [rres EXCEPT ![p] = Tail(@)]
        /\ rpc' = [rpc EXCEPT ![p] = "done"]
        /\ UNCHANGED rchan
  /\ UNCHANGED <<rgrp, ralias, rptr, rfailed>>

\* the operation of the next recv_slice of the reduce process: LAIK_RO_None
\* until the first slice is in if the process gives no input itself
RecvOp(p) ==
  IF ~InGroup(rgrp.in, p) /\ \A i \in 1 .. Len(rptr) : rptr[i].own
    THEN "None" ELSE rgrp.op

\* the reduce process: one round of the loop over the input group
\* (recv_slice stores or reduces into the mapping of toList), and after the
\* loop send_slice of that mapping to the other members of the output group
exec_reduce_root(p) ==
  /\ Frame("red")
  /\ p = reduceTask
  /\ rpc[p] = "start"
  /\ IF Len(rptr) < Len(rgrp.in)
       THEN /\ LET q == rgrp.in[Len(rptr) + 1]
               IN IF q = p
                    THEN /\ rptr' = Append(rptr, [own |-> TRUE, val |-> <<>>])
                         /\ UNCHANGED <<rchan, rbuf>>
                    ELSE /\ rchan[q] # <<>>
                         /\ rptr' = Append(rptr, [own |-> FALSE, val |-> Head(rchan[q])])
                         /\ rchan' = [rchan EXCEPT ![q] = Tail(@)]
                         /\ rbuf' = [rbuf EXCEPT ![p] =
                              WriteTo(@, ralias[p],
                                      IF RecvOp(p) = "None" THEN Head(rchan[q])
                                      ELSE reduce(rgrp.op, rbuf[p].to, Head(rchan[q])))]
            /\ UNCHANGED <<rpc, rres>>
       ELSE /\ rres' = [q \in RTasks |->
                          IF q # p /\ InGroup(rgrp.out, q)
                            THEN Append(rres[q], rbuf[p].to) ELSE rres[q]]
            /\ rpc' = [rpc EXCEPT ![p] = "done"]
            /\ UNCHANGED <<rptr, rchan, rbuf>>
  /\ UNCHANGED <<rgrp, ralias, rfailed>>

NextTcpRed ==
  \/ \E p \in RTasks : exec_reduce_other(p)
  \/ \E p \in RTasks : exec_reduce_root(p)

SpecTcpRed == InitRed /\ [][NextTcpRed]_vars

\* C35: the reduce process is the first member of the output group; when
\* exec_reduce is through on all processes, every member of the output
\* group holds the reduction of the inputs of exactly the members of the
\* input group; no process sends its input or is sent the result twice.
TcpReduction ==
  /\ \A p \in RTasks : InGroup(rgrp.out, p) => reduceTask <= p
  /\ RedDone => \A p \in RTasks : InGroup(rgrp.out, p) => rbuf[p].to = Reduced
  /\ \A p \in RTasks : Len(rchan[p]) <= 1 /\ Len(rres[p]) <= 1

\* ----------------------------------------------------------------------
\* Grants that arrive early
\* ----------------------------------------------------------------------

\* run_loop of p takes an allowsend of r from the connection: the count is
\* in scount for r afterwards, whatever p waits for
GrantRecorded ==
  \A p \in Procs : \A r \in Procs \ {p} :
    (/\ chan[r][p] # <<>>
     /\ Head(chan[r][p]).type = "allowsend"
     /\ chan'[r][p] = Tail(chan[r][p]))
    => peer'[p][r].scount = Head(chan[r][p]).count

\* a recorded grant stays as it is until send_slice to r emits exactly
\* scount data commands and withdraws it
GrantKept ==
  \A p \in Procs : \A r \in Procs \ {p} :
    peer[p][r].scount # 0 =>
      \/ /\ peer'[p][r].scount = peer[p][r].scount
         /\ nsent'[p][r] = nsent[p][r]
      \/ /\ peer'[p][r].scount = 0
         /\ nsent'[p][r] = nsent[p][r] + peer[p][r].scount
         /\ pc[p] \in {"next", "send_loop"}
         /\ CurAction(p).type = "send" /\ CurAction(p).peer = r

\* send_slice that finds the grant does not enter run_loop: it sends at once
GrantedSendRuns ==
  \A p \in Procs :
    (/\ pc[p] = "next" /\ ip[p] <= Len(prog[p])
     /\ CurAction(p).type = "send"
     /\ peer[p][CurAction(p).peer].scount # 0
     /\ <<pc[p], ip[p]>>' # <<pc[p], ip[p]>>)
    => /\ pc'[p] = "next" /\ ip'[p] = ip[p] + 1
       /\ nsent'[p][CurAction(p).peer] > nsent[p][CurAction(p).peer]

laik_single_execTransition ==
  /\ Frame("cont")
  /\ ccall.pc = "exec"
  /\ cuaf' = (cuaf \/ Stale(cd.activeMapping) \/ Stale(ccall.toMap))
  /\ IF cd.activeMapping = 0
       THEN \/ ccall' = [ccall EXCEPT !.pc = "segv"]
            \/ ccall' = [ccall EXCEPT !.pc = "copy"]
       ELSE ccall' = [ccall EXCEPT !.pc = "copy"]
  /\ UNCHANGED <<cd, cparts, cmaps, ccalls, coob>>

NextSingle ==
  \/ SetPartitioningEnter
  \/ laik_single_execTransition
  \/ CopyStep
  \/ InitStep
  \/ FreeOld
  \/ SetActive
  \/ AppWrite

SpecSingle == InitCont /\ [][NextSingle]_vars

\* C37: under the single-task backend laik_set_partitioning on a container
\* without active partitioning and mapping (the first transition, also the
\* one laik_map starts) is not stopped by a read of the absent old mapping,
\* and when it has returned the new partitioning and the new mapping are
\* the active ones.
FirstTransitionCompletes ==
  /\ ccall.pc # "segv"
  /\ (ccall.pc = "idle" /\ ccall.p # 0)
       => cd = [activePartitioning |-> ccall.p, activeMapping |-> ccall.toMap]

\* ======================================================================
\* UCP backend, TCP side channel: start-up of the instance
\* (src/backends/ucp/tcp.c, tcp_initialize_setup_connection)
\* ======================================================================

\* all processes are started with the same world size
UWorld == UOld + MaxNew

\* before tcp_initialize_setup_connection: no LID, no peer table; a process
\* runs on the home host (check_local) or on another one
InitUcpBoot ==
  /\ Idle("ucp")
  /\ \E loc \in [UProcs -> BOOLEAN] :
       uinst = [p \in UProcs |->
         [mylid |-> -1, world_size |-> UWorld, peer |-> <<>>, phase |-> 0,
          epoch |-> 0, pc |-> "boot", ret |-> -1, n |-> 0,
          old |-> 0, opeer |-> <<>>, round |-> 0, rm |-> {}, rmret |-> -1,
          local |-> loc[p]]]
  /\ ufds = <<>>
  /\ ubacklog = <<>>
  /\ uto = [p \in UProcs |-> <<>>]
  /\ ufrom = [p \in UProcs |-> <<>>]
  /\ uleft = {}

\* a process listens on the home port
Listening == \E p \in UProcs : uinst[p].mylid = 0

\* lines 78-141: a process on the home host binds and listens; listen()
\* works for one process only, which becomes master with LID 0 and its own
\* address in peer[0]. Every other process goes on to connect(), which is
\* refused (exit(1)) while nobody listens.
setup_connection_listen(p) ==
  /\ Frame("ucp")
  /\ uinst[p].pc = "boot"
  /\ uinst' = [uinst EXCEPT ![p] =
       IF uinst[p].local /\ ~Listening
         THEN [@ EXCEPT !.mylid = 0, !.peer = <<Addr(p)>>, !.pc = "accept", !.n = 1]
       ELSE IF Listening THEN [@ EXCEPT !.pc = "start"]
       ELSE [@ EXCEPT !.pc = "exit"]]
  /\ ufds' = IF uinst[p].local /\ ~Listening THEN <<p>> ELSE ufds
  /\ UNCHANGED <<ubacklog, uto, ufrom, uleft>>

\* lines 146-164: round i of the accept loop: accept() gives fds[i], then
\* the address of that process is read into peer[i]
setup_connection_accept(p) ==
  LET d == uinst[p] IN
  /\ Frame("ucp")
  /\ \/ /\ d.pc = "accept"
        /\ d.n < d.world_size
        /\ ubacklog # <<>>
        /\ ufds' = Append(ufds, Head(ubacklog))
        /\ ubacklog' = Tail(ubacklog)
        /\ uinst' = [uinst EXCEPT ![p].pc = "readaddr"]
        /\ UNCHANGED ufrom
     \/ /\ d.pc = "readaddr"
        /\ ufrom[ufds[d.n + 1]] # <<>>
        /\ ufrom' = [ufrom EXCEPT ![ufds[d.n + 1]] = Tail(@)]
        /\ uinst' = [uinst EXCEPT ![p].peer = Append(@, Head(ufrom[ufds[d.n + 1]])),
                                  ![p].n = @ + 1,
                                  ![p].pc = "accept"]
        /\ UNCHANGED <<ufds, ubacklog>>
     \/ /\ d.pc = "accept"
        /\ d.n >= d.world_size
        /\ uinst' = [uinst EXCEPT ![p].pc = "send", ![p].n = 1]
        /\ UNCHANGED <<ufds, ubacklog, ufrom>>
  /\ UNCHANGED <<uto, uleft>>

\* as send_instance_data below, but every process is told LID 1
send_instance_data_one(d, lid) ==
  <<1, d.world_size, d.phase, d.epoch>> \o PeerRange(d.peer, 0, d.world_size)

\* send_instance_data: lid, world_size, phase, epoch, then the addresses of
\* peer[0 .. world_size - 1]
send_instance_data(d, lid) ==
  <<lid, d.world_size, d.phase, d.epoch>> \o PeerRange(d.peer, 0, d.world_size)

\* lines 166-169: round i of the send loop; after it the function returns
setup_connection_send(p) ==
  LET d == uinst[p] IN
  /\ Frame("ucp")
  /\ d.pc = "send"
  /\ IF d.n < d.world_size
       THEN /\ uto' = [uto EXCEPT ![ufds[d.n + 1]] = @ \o send_instance_data(d, d.n)]
            /\ uinst' = [uinst EXCEPT ![p].n = @ + 1]
       ELSE /\ uinst' = [uinst EXCEPT ![p].pc = "run"]
            /\ UNCHANGED uto
  /\ UNCHANGED <<ufds, ubacklog, ufrom, uleft>>

NextUcpBoot ==
  \/ \E p \in UProcs : setup_connection_listen(p)
  \/ \E p \in UProcs : setup_connection_accept(p)
  \/ \E p \in UProcs : setup_connection_send(p)
  \/ \E p \in UProcs : tcp_initialize_setup_connection(p)
  \/ \E p \in UProcs : receive_instance_data(p)

SpecUcpBoot == InitUcpBoot /\ [][NextUcpBoot]_vars

\* a process that is not home has read its instance data
BootRead(p) == uinst[p].pc = "initnew"

\* C38: home sends instance data only after all world_size - 1 other
\* processes have connected and delivered their address; the process behind
\* the i-th accepted connection gets LID i, so the LIDs are distinct values
\* of 1 .. world_size - 1; and every process ends with the world size, the
\* phase, the epoch and the address table of home.
BootAgrees ==
  \A h \in UProcs : uinst[h].mylid = 0 =>
    \A p \in UProcs \ {h} :
      /\ (uto[p] # <<>> \/ BootRead(p)) =>
            /\ Len(ufds) = UWorld /\ Len(uinst[h].peer) = UWorld
            /\ \A l \in 0 .. (UWorld - 1) : uinst[h].peer[l + 1] = Addr(ufds[l + 1])
            /\ \A q \in UProcs \ {h} : ufrom[q] = <<>> /\ uinst[q].pc \in {"wait", "initnew"}
      /\ BootRead(p) =>
            /\ uinst[p].mylid \in 1 .. (UWorld - 1)
            /\ ufds[uinst[p].mylid + 1] = p
            /\ \A q \in UProcs \ {h, p} : BootRead(q) => uinst[q].mylid # uinst[p].mylid
            /\ uinst[p].world_size = uinst[h].world_size
            /\ uinst[p].phase = uinst[h].phase
            /\ uinst[p].epoch = uinst[h].epoch
            /\ uinst[p].peer = uinst[h].peer

\* home has returned, every other process has read its instance data, and
\* the connections were not accepted in the order of the process numbers
WitnessBootAgrees ==
  \E h \in UProcs :
    /\ uinst[h].mylid = 0 /\ uinst[h].pc = "run"
    /\ \A p \in UProcs \ {h} : BootRead(p)
    /\ \E p, q \in UProcs \ {h} : p < q /\ uinst[p].mylid > uinst[q].mylid

\* ----------------------------------------------------------------------
\* MPI backend: exec of a process outside the group
\* ----------------------------------------------------------------------

\* C39: laik_mpi_exec of a process with myid = -1 in the active group,
\* called with no plan or with a plan without recorded actions, makes no
\* MPI send, receive or reduction, fails no assertion, and changes no
\* mapping, no statistics and no group.
OutsiderExecStep ==
  (/\ llast'.op = "exec" /\ ln' = ln + 1
   /\ lgroups[llast'.g].myid = -1
   /\ (llast'.tp.isNull \/ Len(llast'.tp.action) = 0))
  => /\ lcalls' = <<>>
     /\ lfail' = "none"
     /\ ld' = ld
     /\ lgroups' = lgroups

OutsiderExecNoop == [][OutsiderExecStep]_vars

\* a process outside a derived group, whose communicator is MPI_COMM_NULL,
\* has called exec without a plan for a transition with a reduction, a send
\* and a receive, after an exec in the world group that was counted
WitnessOutsiderExecNoop ==
  \E g \in Derived :
    /\ llast.op = "exec"
    /\ llast.g = g
    /\ llast.tp.isNull
    /\ llast.t.redCount = 1 /\ Len(llast.t.ops) = 2
    /\ lgroups[g].myid = -1
    /\ lgroups[g].backend_data = -1
    /\ ld.stat > 0
    /\ lcalls = <<>>
    /\ lfail = "none"


\* ======================================================================
\* MPI backend: the buffers of a transition plan
\* (src/backend-mpi.c, laik_transplan_appendBuf)
\* ======================================================================

\* calls of laik_transplan_appendBuf on one plan
MaxAppends == 42

\* buffer sizes asked for
BufSizes == {8, 64}

\* the room laik_transplan_appendBuf makes when the list is full
GrownAlloc(bufCount) == (bufCount + 20) * 2

\* the plan as laik_transplan_new leaves it
InitPlan ==
  /\ Idle("plan")
  /\ tplan = [bufCount |-> 0, bufAllocCount |-> 0, buf |-> <<>>]
  /\ tfail = "none"
  /\ tlast = [op |-> "new"]
  /\ tn = 0

\* laik_transplan_appendBuf(tp, size): realloc of the list if it is full
\* (panic if that fails), malloc of the buffer, panic "if (buf)", that is if
\* malloc returned a buffer; else the null pointer is stored at
\* buf[bufCount], bufCount is incremented and the old bufCount returned.
\* A buffer is written here as its size, the null pointer as 0.
laik_transplan_appendBuf(size, reallocOk, mallocOk) ==
  LET full == tplan.bufCount = tplan.bufAllocCount
      alloc == IF full THEN GrownAlloc(tplan.bufCount) ELSE tplan.bufAllocCount
      buf == IF mallocOk THEN size ELSE 0
      bufNo == tplan.bufCount IN
  /\ Frame("plan")
  /\ tfail = "none"
  /\ tn < MaxAppends
  /\ tn' = tn + 1
  /\ IF full /\ ~reallocOk
       THEN /\ tfail' = "Out of memory (list)"
            /\ tplan' = [tplan EXCEPT !.bufAllocCount = alloc, !.buf = <<>>]
            /\ tlast' = [op |-> "appendBuf", size |-> size, mallocOk |-> mallocOk,
                         reallocOk |-> reallocOk, full |-> full, ret |-> -1]
     ELSE IF buf # 0
       THEN /\ tfail' = "Out of memory (buffer)"
            /\ tplan' = [tplan EXCEPT !.bufAllocCount = alloc]
            /\ tlast' = [op |-> "appendBuf", size |-> size, mallocOk |-> mallocOk,
                         reallocOk |-> reallocOk, full |-> full, ret |-> -1]
     ELSE /\ tfail' = "none"
          /\ tplan' = [bufCount |-> tplan.bufCount + 1, bufAllocCount |-> alloc,
                       buf |-> Append(tplan.buf, buf)]
          /\ tlast' = [op |-> "appendBuf", size |-> size, mallocOk |-> mallocOk,
                       reallocOk |-> reallocOk, full |-> full, ret |-> bufNo]

NextPlan ==
  \E size \in BufSizes : \E reallocOk \in BOOLEAN : \E mallocOk \in BOOLEAN :
    laik_transplan_appendBuf(size, reallocOk, mallocOk)

SpecPlan == InitPlan /\ [][NextPlan]_vars

\* C40: a call of laik_transplan_appendBuf whose allocations succeed appends
\* the new buffer, increments bufCount and returns the previous bufCount;
\* the call panics only if an allocation fails; and bufCount never exceeds
\* bufAllocCount.
AppendBufStep ==
  tn' = tn + 1 =>
    /\ (tlast'.mallocOk /\ (tlast'.reallocOk \/ ~tlast'.full)) =>
         /\ tfail' = "none"
         /\ tplan'.bufCount = tplan.bufCount + 1
         /\ tplan'.buf = Append(tplan.buf, tlast'.size)
         /\ tlast'.ret = tplan.bufCount
    /\ tfail' # "none" => (~tlast'.mallocOk \/ (tlast'.full /\ ~tlast'.reallocOk))
    /\ tplan'.bufCount <= tplan'.bufAllocCount

AppendBufAppends == [][AppendBufStep]_vars
====
